---------------------------- MODULE Spec2Model ----------------------------
(***************************************************************************)
(* A model of nova/network/manager.py: the network host manager.  The      *)
(* persisted entities (networks, fixed IPs, virtual interfaces, floating   *)
(* IPs) are the Store; every manager method is a sequence of Store calls,  *)
(* and each Store call is one atomic step of the call that issues it.      *)
(* Addresses are integers: the offset of the address in fixed_range.       *)
(***************************************************************************)
EXTENDS Integers, Sequences, FiniteSets, TLC

VARIABLES
    policy,         \* the manager class in use: "Flat", "FlatDHCP" or "VLAN"
    FLAGS,          \* the flags the manager reads: fake_network, ...
    networks,       \* Store: network id -> Network row
    fixed_ips,      \* Store: address -> FixedIP row
    vifs,           \* Store: the VirtualInterface rows
    next_vif_id,    \* Store: the next VirtualInterface id
    floating_ips,   \* Store: floating address -> FloatingIP row
    calls,          \* the manager calls in flight or finished: id -> frame
    now,            \* utils.utcnow(), in seconds
    ticks,          \* per network host: the position of its periodic task
    create          \* the create_networks call: its arguments and position

vars == <<policy, FLAGS, networks, fixed_ips, vifs, next_vif_id,
          floating_ips, calls, now, ticks, create>>

\* Python's None, for every nullable column and local.
None == 0 - 1

Policies == {"Flat", "FlatDHCP", "VLAN"}

---------------------------------------------------------------------------
(* Bounds of the model.                                                    *)

\* log2 of the network_size the deployment's networks are created with
NetSizeBits == 2
\* number of networks the deployment is created with
NumNetworks == 2
\* number of instances
NumInstances == 2
\* number of manager calls the environment issues in one behaviour
MaxCalls == 2
\* number of clock steps
MaxTicks == 1
\* number of manager calls about one leased address
MaxLeaseCalls == 2
\* number of floating IPs in the deployment's pool
NumFloating == 2
\* number of floating IPs the quota allows a project
QuotaFloatingIps == 2
\* number of create_networks calls an administrator makes
MaxCreates == 2

Instances == 1..NumInstances
Hosts == {1, 2}

---------------------------------------------------------------------------
(* Flags (manager.py:72-112).                                              *)

cnt_vpn_clients == 0
fixed_ip_disassociate_timeout == 600
create_unique_mac_address_attempts == 5

---------------------------------------------------------------------------
(* Address arithmetic: netaddr.IPNetwork over integer addresses.  A cidr   *)
(* is [ip, bits], the two parts of the string "ip/bits".                   *)

RECURSIVE Pow2(_)
Pow2(k) == IF k <= 0 THEN 1 ELSE 2 * Pow2(k - 1)

\* int(math.log(n, 2)) for n >= 1
RECURSIVE Log2Int(_)
Log2Int(n) == IF n <= 1 THEN 0 ELSE 1 + Log2Int(n \div 2)

\* len(netaddr.IPNetwork(cidr))
NetLen(cidr) == Pow2(32 - cidr.bits)

\* netaddr.IPNetwork(cidr).first: the host bits of ip are masked off
NetFirst(cidr) == cidr.ip - (cidr.ip % NetLen(cidr))

\* netaddr.IPNetwork(cidr)[i], defined for 0 <= i < len (IndexError otherwise)
NetAt(cidr, i) == NetFirst(cidr) + i

---------------------------------------------------------------------------
(* Network creation (manager.py:564-656, 861-876, 909-918).                *)

\* NetworkManager._bottom_reserved_ips / VlanManager._bottom_reserved_ips
BottomReservedIps(pol) == IF pol = "VLAN" THEN 2 + 1 ELSE 2

\* NetworkManager._top_reserved_ips / VlanManager._top_reserved_ips
TopReservedIps(pol) == IF pol = "VLAN" THEN 1 + cnt_vpn_clients ELSE 1

\* The test of _create_fixed_ips that decides the reserved column of the
\* row at position index of a network of num_ips addresses.
IsReservedIndex(pol, index, num_ips) ==
    \/ index < BottomReservedIps(pol)
    \/ num_ips - index < TopReservedIps(pol)

\* A new FixedIP row (db.fixed_ip_create): the columns the manager does not
\* give take the Store's defaults.
NewFixedIp(network_id, address, reserved) ==
    [network_id |-> network_id, address |-> address, reserved |-> reserved,
     instance_id |-> None, virtual_interface_id |-> None,
     allocated |-> FALSE, leased |-> FALSE, updated_at |-> None]

\* NetworkManager._create_fixed_ips: the rows of one network, by address.
CreateFixedIps(pol, network_id, cidr) ==
    LET num_ips == NetLen(cidr)
    IN  [address \in {NetAt(cidr, index) : index \in 0..(num_ips - 1)} |->
            NewFixedIp(network_id, address,
                       IsReservedIndex(pol, address - NetFirst(cidr), num_ips))]

\* The vpn keyword of NetworkManager.create_networks: VlanManager passes
\* vpn=True, the flat managers do not pass it.
VpnMode(pol) == pol = "VLAN"

\* The cidr of the subnet at position index: '%s/%s' % (fixed_net[start],
\* significant_bits).
SubnetCidr(a, index) ==
    LET start == index * a.network_size
        significant_bits == 32 - Log2Int(a.network_size)
    IN  [ip |-> NetAt(a.cidr, start), bits |-> significant_bits]

\* Whether one iteration of the loop of create_networks raises IndexError:
\* fixed_net[start], project_net[1], project_net[2] and, with vpn,
\* project_net[3] must exist.
SubnetIndexError(pol, a, index) ==
    \/ index * a.network_size >= NetLen(a.cidr)
    \/ NetLen(SubnetCidr(a, index)) <= (IF VpnMode(pol) THEN 3 ELSE 2)

\* The net dictionary create_networks fills in for the subnet at index.
NetFields(pol, a, index) ==
    LET cidr == SubnetCidr(a, index)
        vpn == VpnMode(pol)
    IN  [cidr |-> cidr,
         index |-> index,
         gateway |-> NetAt(cidr, 1),
         broadcast |-> NetFirst(cidr) + NetLen(cidr) - 1,
         dhcp_start |-> IF vpn THEN NetAt(cidr, 3) ELSE NetAt(cidr, 2),
         vpn_private_address |-> IF vpn THEN NetAt(cidr, 2) ELSE None,
         vlan |-> IF vpn THEN a.vlan_start + index ELSE None,
         vpn_public_port |-> IF vpn THEN a.vpn_start + index ELSE None,
         host |-> None,
         multi_host |-> FALSE]

\* db.network_create_safe: None when a network with the cidr exists, else
\* the id of the row it inserts.
NetworkCreateSafe(nets, net) ==
    IF \E id \in DOMAIN nets : nets[id].cidr = net.cidr
    THEN None
    ELSE Cardinality(DOMAIN nets) + 1

\* The iteration without its else branch: a subnet whose cidr exists is
\* passed over.
CreateNetworksIter_SkipExisting(db, pol, a, index) ==
    IF SubnetIndexError(pol, a, index)
    THEN [db |-> db, raised |-> "IndexError"]
    ELSE LET net == NetFields(pol, a, index)
             id == NetworkCreateSafe(db.networks, net)
         IN  IF id = None
             THEN [db |-> db, raised |-> ""]
             ELSE [db |-> [networks |-> (id :> ([id |-> id] @@ net)) @@ db.networks,
                           fixed_ips |-> CreateFixedIps(pol, id, net.cidr)
                                           @@ db.fixed_ips],
                   raised |-> ""]

\* The iteration with a rollback: on a cidr that exists it removes the
\* subnets the call created before it.
CreateNetworksIter_Rollback(db, pol, a, index) ==
    IF SubnetIndexError(pol, a, index)
    THEN [db |-> db, raised |-> "IndexError"]
    ELSE LET net == NetFields(pol, a, index)
             id == NetworkCreateSafe(db.networks, net)
             keep == {k \in DOMAIN db.networks :
                        \A j \in 0..(index - 1) :
                            db.networks[k].cidr # SubnetCidr(a, j)}
         IN  IF id = None
             THEN [db |-> [networks |-> [k \in keep |-> db.networks[k]],
                           fixed_ips |-> [x \in {y \in DOMAIN db.fixed_ips :
                                                    db.fixed_ips[y].network_id \in keep}
                                            |-> db.fixed_ips[x]]],
                   raised |-> "ValueError"]
             ELSE [db |-> [networks |-> (id :> ([id |-> id] @@ net)) @@ db.networks,
                           fixed_ips |-> CreateFixedIps(pol, id, net.cidr)
                                           @@ db.fixed_ips],
                   raised |-> ""]

\* One iteration of the loop of NetworkManager.create_networks on the Store
\* db = [networks, fixed_ips]: the Store afterwards and what the iteration
\* raised ("" when it raised nothing).
CreateNetworksIter(db, pol, a, index) ==
    IF SubnetIndexError(pol, a, index)
    THEN [db |-> db, raised |-> "IndexError"]
    ELSE LET net == NetFields(pol, a, index)
             id == NetworkCreateSafe(db.networks, net)
         IN  IF id = None
             THEN [db |-> db, raised |-> "ValueError"]
             ELSE [db |-> [networks |-> (id :> ([id |-> id] @@ net)) @@ db.networks,
                           fixed_ips |-> CreateFixedIps(pol, id, net.cidr)
                                           @@ db.fixed_ips],
                   raised |-> ""]

\* The checks of VlanManager.create_networks with >= for > in the first.
VlanArgsError_AtLeast(a) ==
    \/ a.num_networks + a.vlan_start >= 4094
    \/ NetLen(a.cidr) < a.num_networks * a.network_size

\* VlanManager.create_networks: the two checks made before any row is
\* written.
VlanArgsError(a) ==
    \/ a.num_networks + a.vlan_start > 4094
    \/ NetLen(a.cidr) < a.num_networks * a.network_size

\* create_networks from position index on, to its end.
RECURSIVE CreateNetworksFrom(_, _, _, _)
CreateNetworksFrom(db, pol, a, index) ==
    IF index >= a.num_networks
    THEN [db |-> db, raised |-> ""]
    ELSE LET r == CreateNetworksIter(db, pol, a, index)
         IN  IF r.raised # "" THEN r
             ELSE CreateNetworksFrom(r.db, pol, a, index + 1)

\* create_networks of the manager class pol, called on the Store db.
CreateNetworks(db, pol, a) ==
    IF pol = "VLAN" /\ VlanArgsError(a)
    THEN [db |-> db, raised |-> "ValueError"]
    ELSE CreateNetworksFrom(db, pol, a, 0)

EmptyDb == [networks |-> <<>>, fixed_ips |-> <<>>]

---------------------------------------------------------------------------
(* The Store operations the manager calls (nova.db), as functions of the   *)
(* tables they read and write.                                             *)

\* db.fixed_ip_update(address, values) at time t: the given columns change
\* and the row's updated_at becomes t.
FixedIpUpdate(fips, address, values, t) ==
    [fips EXCEPT ![address] = values @@ [updated_at |-> t] @@ @]

\* The rows db.fixed_ip_associate_pool may claim: the unreserved rows of
\* the network that no instance holds.
PoolOf(fips, network_id) ==
    {a \in DOMAIN fips : /\ fips[a].network_id = network_id
                         /\ ~fips[a].reserved
                         /\ fips[a].instance_id = None}

\* db.fixed_ip_associate_pool, having picked address from the pool.
FixedIpAssociatePool(fips, address, instance_id, t) ==
    FixedIpUpdate(fips, address, [instance_id |-> instance_id], t)

\* db.fixed_ip_disassociate(address)
FixedIpDisassociate(fips, address, t) ==
    FixedIpUpdate(fips, address, [instance_id |-> None], t)

\* db.fixed_ip_disassociate_all_by_timeout(host, time): the rows it frees.
StaleFixedIps(fips, nets, host, time) ==
    {a \in DOMAIN fips : /\ fips[a].instance_id # None
                         /\ ~fips[a].allocated
                         /\ ~fips[a].leased
                         /\ fips[a].updated_at # None
                         /\ fips[a].updated_at < time
                         /\ nets[fips[a].network_id].host = host}

\* db.fixed_ip_disassociate_all_by_timeout(host, time)
FixedIpDisassociateAllByTimeout(fips, nets, host, time, t) ==
    [a \in DOMAIN fips |->
        IF a \in StaleFixedIps(fips, nets, host, time)
        THEN [instance_id |-> None, updated_at |-> t] @@ fips[a]
        ELSE fips[a]]

\* db.fixed_ip_get_by_instance(instance_id): the addresses, in address order
RECURSIVE SortedSeq(_)
SortedSeq(S) ==
    IF S = {} THEN <<>>
    ELSE LET m == CHOOSE x \in S : \A y \in S : x <= y
         IN  <<m>> \o SortedSeq(S \ {m})

FixedIpGetByInstance(fips, instance_id) ==
    SortedSeq({a \in DOMAIN fips : fips[a].instance_id = instance_id})

\* db.virtual_interface_create(vif): whether the unique index on the MAC
\* address refuses the row.
VifConflict(rows, address) == \E v \in rows : v.address = address

\* db.virtual_interface_get_by_instance_and_network: the matching rows
VifsOf(rows, instance_id, network_id) ==
    {v \in rows : v.instance_id = instance_id /\ v.network_id = network_id}

\* db.virtual_interface_delete_by_instance(instance_id)
VifDeleteByInstance(rows, instance_id) ==
    {v \in rows : v.instance_id # instance_id}

\* db.network_get_all, in id order
NetworkGetAll(nets) == SortedSeq(DOMAIN nets)

\* Sequence filter
RECURSIVE SelectIds(_, _)
SelectIds(seq, S) ==
    IF seq = <<>> THEN <<>>
    ELSE (IF Head(seq) \in S THEN <<Head(seq)>> ELSE <<>>) \o SelectIds(Tail(seq), S)

---------------------------------------------------------------------------
(* Policy: the methods the three manager classes override.                 *)

\* timeout_fixed_ips False in every class
timeout_fixed_ips_Never(pol) == FALSE

\* timeout_fixed_ips: True in NetworkManager, False in FlatManager
timeout_fixed_ips(pol) == pol # "Flat"

\* hasattr(FLAGS, 'auto_assign_floating_ip')
HasAutoAssign(flags) == flags.auto_assign_floating_ip # "undefined"

\* Whether the class has the RPCAllocateFixedIP mixin
HasRpcMixin(pol) == pol \in {"FlatDHCP", "VLAN"}

\* Whether the class has the FloatingIP mixin
HasFloatingMixin(pol) == pol \in {"FlatDHCP", "VLAN"}

\* _get_networks_for_instance: NetworkManager keeps the networks without a
\* vlan that have a host; VlanManager keeps the project's networks that
\* have a host.
GetNetworksForInstance(pol, nets) ==
    SelectIds(NetworkGetAll(nets),
              IF pol = "VLAN"
              THEN {id \in DOMAIN nets : nets[id].host # None}
              ELSE {id \in DOMAIN nets : nets[id].vlan = None /\ nets[id].host # None})

---------------------------------------------------------------------------
(* Call frames.  A frame holds the arguments and locals of one manager     *)
(* call; pc is the Store call it makes next.  sub[network_id] is the frame *)
(* of the allocate_fixed_ip the call started for that network, run in the  *)
(* call itself (remote = FALSE) or by rpc.call in a green thread.  made    *)
(* counts the VIF rows the call has created.                               *)

NoSeen == [instance_id |-> None, allocated |-> FALSE, leased |-> FALSE]

IdleFrame ==
    [op |-> "none", pc |-> "idle", host |-> None, instance_id |-> None,
     host_arg |-> None, address |-> None, nets |-> <<>>, n |-> 0,
     attempts |-> 0, sub |-> <<>>, fixed_list |-> <<>>, floats |-> <<>>,
     seen |-> NoSeen, made |-> 0,
     raised |-> "", ret |-> {}]

\* The frame of a call that has returned (raised = "") or raised: its
\* locals are gone.
Finished(f, raised, ret) ==
    [f EXCEPT !.pc = "done", !.raised = raised, !.ret = ret,
              !.nets = <<>>, !.n = 0, !.attempts = 0, !.fixed_list = <<>>,
              !.floats = <<>>, !.seen = NoSeen, !.host_arg = None]

\* The environment issues its calls one after the other: call c can be
\* issued when every call before it has been.
CanStart(c) ==
    /\ calls[c].op = "none"
    /\ \A d \in DOMAIN calls : d < c => calls[d].op # "none"

---------------------------------------------------------------------------
(* allocate_for_instance (manager.py:373-389) and _allocate_mac_addresses  *)
(* (manager.py:469-485).                                                   *)

\* The loop of _allocate_fixed_ips moves to the next network, or the loop
\* has ended and the call waits for its green threads.
NextNetwork(f) ==
    IF f.n < Len(f.nets)
    THEN [f EXCEPT !.n = f.n + 1, !.pc = "fan_out"]
    ELSE [f EXCEPT !.n = 0, !.pc = "waitall"]

\* allocate_for_instance is called on network host h: it reads the
\* networks of the instance (its first Store call).
AllocateForInstance(c, h, i, compute_host) ==
    /\ CanStart(c)
    /\ LET nets == GetNetworksForInstance(policy, networks)
           f == [IdleFrame EXCEPT !.op = "allocate_for_instance", !.host = h,
                                  !.instance_id = i, !.host_arg = compute_host,
                                  !.nets = nets]
       IN  calls' = [calls EXCEPT ![c] =
                IF nets = <<>> THEN [f EXCEPT !.pc = "waitall"]
                ELSE [f EXCEPT !.pc = "mac", !.n = 1]]
    /\ UNCHANGED <<policy, FLAGS, networks, fixed_ips, vifs, next_vif_id,
                   floating_ips, now, ticks, create>>

\* generate_mac_address draws 24 bits at random.  The draws that matter are
\* the MAC addresses some VIF row has and one that no row has: which of the
\* unused addresses is drawn makes no difference to any row.
MacDraws(rows) ==
    {v.address : v \in rows}
        \cup {CHOOSE m \in 1..(Cardinality(rows) + 1) :
                    /\ \A v \in rows : v.address # m
                    /\ \A k \in 1..(m - 1) : \E v \in rows : v.address = k}

\* One pass of the retry loop of _allocate_mac_addresses: a generated MAC
\* address m and db.virtual_interface_create with it.
AllocateMacAddress(c) ==
    /\ calls[c].pc = "mac"
    /\ \E m \in MacDraws(vifs) :
        LET f == calls[c] IN
        IF ~VifConflict(vifs, m)
        THEN /\ vifs' = vifs \cup {[id |-> next_vif_id, address |-> m,
                                    instance_id |-> f.instance_id,
                                    network_id |-> f.nets[f.n]]}
             /\ next_vif_id' = next_vif_id + 1
             /\ calls' = [calls EXCEPT ![c] =
                    IF f.n < Len(f.nets)
                    THEN [f EXCEPT !.n = f.n + 1, !.attempts = 0,
                                   !.made = f.made + 1]
                    ELSE [f EXCEPT !.n = 1, !.attempts = 0, !.pc = "fan_out",
                                   !.made = f.made + 1]]
        ELSE /\ calls' = [calls EXCEPT ![c] =
                    IF f.attempts + 1 < create_unique_mac_address_attempts
                    THEN [f EXCEPT !.attempts = f.attempts + 1]
                    ELSE [f EXCEPT !.attempts = f.attempts + 1,
                                   !.pc = "mac_rollback"]]
             /\ UNCHANGED <<vifs, next_vif_id>>
    /\ UNCHANGED <<policy, FLAGS, networks, fixed_ips, floating_ips,
                   now, ticks, create>>

\* MacRollback without the call of db.virtual_interface_delete_by_instance
MacRollback_NoDelete(c) ==
    /\ calls[c].pc = "mac_rollback"
    /\ calls' = [calls EXCEPT ![c] =
            Finished(calls[c], "VirtualInterfaceMacAddressException", {})]
    /\ UNCHANGED <<policy, FLAGS, networks, fixed_ips, vifs, next_vif_id,
                   floating_ips, now, ticks, create>>

\* The else branch of the retry loop: every attempt conflicted.
MacRollback(c) ==
    /\ calls[c].pc = "mac_rollback"
    /\ vifs' = VifDeleteByInstance(vifs, calls[c].instance_id)
    /\ calls' = [calls EXCEPT ![c] =
            Finished(calls[c], "VirtualInterfaceMacAddressException", {})]
    /\ UNCHANGED <<policy, FLAGS, networks, fixed_ips, next_vif_id,
                   floating_ips, now, ticks, create>>

---------------------------------------------------------------------------
(* _allocate_fixed_ips (manager.py:126-149, 705-708), allocate_fixed_ip    *)
(* (manager.py:500-515, 763-769, 818-836), add_fixed_ip_to_instance        *)
(* (manager.py:495-498).                                                   *)

NewSub(remote) ==
    [pc |-> "claim", remote |-> remote, address |-> None, vif_id |-> None,
     raised |-> "", ret |-> None]

\* The host the loop of RPCAllocateFixedIP._allocate_fixed_ips holds in its
\* variable host once it has looked at the network: the variable is the
\* argument host, overwritten at every network that is not multi_host.
FanOutHost(f, net) == IF ~net.multi_host THEN net.host ELSE f.host_arg

\* One pass of the loop of _allocate_fixed_ips: FlatManager calls
\* allocate_fixed_ip itself; the mixin calls it when the network's host is
\* this host and otherwise spawns the rpc.call of _rpc_allocate_fixed_ip.
FanOut(c) ==
    /\ calls[c].pc = "fan_out"
    /\ LET f == calls[c]
           nid == f.nets[f.n]
           host == FanOutHost(f, networks[nid])
       IN  calls' = [calls EXCEPT ![c] =
                IF HasRpcMixin(policy)
                THEN IF host # f.host
                     THEN NextNetwork([f EXCEPT !.host_arg = host,
                                                !.sub = (nid :> NewSub(TRUE)) @@ @])
                     ELSE [f EXCEPT !.host_arg = host, !.pc = "local",
                                    !.sub = (nid :> NewSub(FALSE)) @@ @]
                ELSE [f EXCEPT !.pc = "local",
                               !.sub = (nid :> NewSub(FALSE)) @@ @]]
    /\ UNCHANGED <<policy, FLAGS, networks, fixed_ips, vifs, next_vif_id,
                   floating_ips, now, ticks, create>>

\* allocate_fixed_ip of call c for network nid has ended, raising raised
\* ("" for a normal return of ret).  Run by the call itself, an exception
\* ends the call; in a green thread, spawn_n drops both the value and the
\* exception.
EndAllocate(f, nid, address, raised, ret) ==
    LET g == [f EXCEPT !.sub[nid] = [@ EXCEPT !.pc = "done", !.address = address,
                                              !.raised = raised, !.ret = ret]]
    IN  IF f.sub[nid].remote THEN g
        ELSE IF raised # "" THEN Finished(g, raised, {})
        ELSE NextNetwork(g)

\* What allocate_fixed_ip does after db.fixed_ip_update: NetworkManager
\* returns the address; FlatDHCPManager and VlanManager call
\* self._update_dhcp unless FLAGS.fake_network, a method the class does not
\* have (it defines _update_dchp), and return nothing.
AllocateTailRaised(pol, fake) ==
    IF pol \in {"FlatDHCP", "VLAN"} /\ ~fake THEN "AttributeError" ELSE ""

AllocateTailRet(pol, address) == IF pol = "Flat" THEN address ELSE None

\* allocate_fixed_ip, first Store call: db.fixed_ip_associate_pool.
AllocateClaim(c, nid) ==
    /\ nid \in DOMAIN calls[c].sub
    /\ calls[c].sub[nid].pc = "claim"
    /\ LET f == calls[c]
           pool == PoolOf(fixed_ips, nid)
       IN  IF pool = {}
           THEN /\ calls' = [calls EXCEPT ![c] =
                        EndAllocate(f, nid, None, "NoMoreAddresses", None)]
                /\ UNCHANGED fixed_ips
           ELSE \E a \in pool :
                /\ fixed_ips' = FixedIpAssociatePool(fixed_ips, a, f.instance_id, now)
                /\ calls' = [calls EXCEPT ![c].sub[nid] =
                        [@ EXCEPT !.pc = "lookup", !.address = a]]
    /\ UNCHANGED <<policy, FLAGS, networks, vifs, next_vif_id,
                   floating_ips, now, ticks, create>>

\* The lookup with a handler that gives the address back to the pool when
\* no VIF is found.
AllocateLookup_Release(c, nid) ==
    /\ nid \in DOMAIN calls[c].sub
    /\ calls[c].sub[nid].pc = "lookup"
    /\ LET f == calls[c]
           rows == VifsOf(vifs, f.instance_id, nid)
       IN  IF rows = {}
           THEN /\ calls' = [calls EXCEPT ![c] =
                        EndAllocate(f, nid, f.sub[nid].address, "TypeError", None)]
                /\ fixed_ips' = FixedIpDisassociate(fixed_ips, f.sub[nid].address, now)
           ELSE /\ \E v \in rows :
                    calls' = [calls EXCEPT ![c].sub[nid] =
                        [@ EXCEPT !.pc = "update", !.vif_id = v.id]]
                /\ UNCHANGED fixed_ips
    /\ UNCHANGED <<policy, FLAGS, networks, vifs, next_vif_id,
                   floating_ips, now, ticks, create>>

\* allocate_fixed_ip, second Store call:
\* db.virtual_interface_get_by_instance_and_network, and vif['id'].
AllocateLookup(c, nid) ==
    /\ nid \in DOMAIN calls[c].sub
    /\ calls[c].sub[nid].pc = "lookup"
    /\ LET f == calls[c]
           rows == VifsOf(vifs, f.instance_id, nid)
       IN  IF rows = {}
           THEN calls' = [calls EXCEPT ![c] =
                    EndAllocate(f, nid, f.sub[nid].address, "TypeError", None)]
           ELSE \E v \in rows :
                calls' = [calls EXCEPT ![c].sub[nid] =
                    [@ EXCEPT !.pc = "update", !.vif_id = v.id]]
    /\ UNCHANGED <<policy, FLAGS, networks, fixed_ips, vifs, next_vif_id,
                   floating_ips, now, ticks, create>>

\* allocate_fixed_ip, third Store call: db.fixed_ip_update, and the rest of
\* the method.
AllocateUpdate(c, nid) ==
    /\ nid \in DOMAIN calls[c].sub
    /\ calls[c].sub[nid].pc = "update"
    /\ LET f == calls[c]
           a == f.sub[nid].address
       IN  /\ fixed_ips' = FixedIpUpdate(fixed_ips, a,
                    [allocated |-> TRUE,
                     virtual_interface_id |-> f.sub[nid].vif_id], now)
           /\ calls' = [calls EXCEPT ![c] =
                    EndAllocate(f, nid, a, AllocateTailRaised(policy, FLAGS.fake_network),
                                AllocateTailRet(policy, a))]
    /\ UNCHANGED <<policy, FLAGS, networks, vifs, next_vif_id,
                   floating_ips, now, ticks, create>>

\* The calls of allocate_fixed_ip that call c spawned and that still run
Pending(f) == {nid \in DOMAIN f.sub : f.sub[nid].pc # "done"}

\* get_instance_nw_info: for every VIF of the instance, its network and the
\* instance's fixed IPs on that network.
InstanceNwInfo(fips, rows, instance_id) ==
    {[network_id |-> v.network_id, mac |-> v.address,
      ips |-> {a \in DOMAIN fips : /\ fips[a].instance_id = instance_id
                                   /\ fips[a].network_id = v.network_id}]
        : v \in {w \in rows : w.instance_id = instance_id}}

\* green_pool.waitall() has returned: allocate_for_instance returns
\* get_instance_nw_info, add_fixed_ip_to_instance returns.
ReturnFromAllocate(c) ==
    /\ calls[c].pc = "waitall"
    /\ Pending(calls[c]) = {}
    /\ LET f == calls[c]
           ips == InstanceNwInfo(fixed_ips, vifs, f.instance_id)
       IN  calls' = [calls EXCEPT ![c] =
                IF f.op # "allocate_for_instance" THEN Finished(f, "", {})
                ELSE IF HasFloatingMixin(policy) /\ HasAutoAssign(FLAGS)
                     THEN [f EXCEPT !.pc = "auto_allocate", !.ret = ips]
                     ELSE Finished(f, "", ips)]
    /\ UNCHANGED <<policy, FLAGS, networks, fixed_ips, vifs, next_vif_id,
                   floating_ips, now, ticks, create>>

\* The project of an instance (the project_id the compute API passes): one
\* project per instance.
ProjectOf(instance_id) == instance_id

\* quota.allowed_floating_ips(context, 1): how many of the one floating IP
\* asked for the project may still allocate.
AllowedFloatingIps(flips, project_id) ==
    LET used == Cardinality({x \in DOMAIN flips : flips[x].project_id = project_id})
    IN  IF used < QuotaFloatingIps THEN 1 ELSE 0

\* The rows db.floating_ip_allocate_address may take: those of no project
FreeFloatingIps(flips) == {x \in DOMAIN flips : flips[x].project_id = None}

\* db.floating_ip_allocate_address, having picked address x
FloatingIpAllocateAddress(flips, x, project_id) ==
    [flips EXCEPT ![x].project_id = project_id]

\* allocate_floating_ip with the pool looked at before the quota
AllocateFloatingRaised_PoolFirst(flips, project_id) ==
    IF FreeFloatingIps(flips) = {} THEN "NoMoreAddresses"
    ELSE IF AllowedFloatingIps(flips, project_id) < 1 THEN "QuotaError"
    ELSE ""

\* What allocate_floating_ip raises ("" when it returns an address)
AllocateFloatingRaised(flips, project_id) ==
    IF AllowedFloatingIps(flips, project_id) < 1 THEN "QuotaError"
    ELSE IF FreeFloatingIps(flips) = {} THEN "NoMoreAddresses"
    ELSE ""

\* db.floating_ip_set_auto_assigned
FloatingIpSetAutoAssigned(flips, x) == [flips EXCEPT ![x].auto_assigned = TRUE]

\* db.floating_ip_fixed_ip_associate
FloatingIpFixedIpAssociate(flips, x, fixed_address) ==
    [flips EXCEPT ![x].fixed_ip = fixed_address]

\* FloatingIP.allocate_for_instance after the fixed IPs:
\* self.allocate_floating_ip(context, project_id)
AutoAllocate(c) ==
    /\ calls[c].pc = "auto_allocate"
    /\ LET f == calls[c]
           project_id == ProjectOf(f.instance_id)
           raised == AllocateFloatingRaised(floating_ips, project_id)
       IN  IF raised # ""
           THEN /\ calls' = [calls EXCEPT ![c] = Finished(f, raised, {})]
                /\ UNCHANGED floating_ips
           ELSE \E x \in FreeFloatingIps(floating_ips) :
                /\ floating_ips' = FloatingIpAllocateAddress(floating_ips, x, project_id)
                /\ calls' = [calls EXCEPT ![c] =
                        [f EXCEPT !.pc = "auto_set", !.address = x]]
    /\ UNCHANGED <<policy, FLAGS, networks, fixed_ips, vifs, next_vif_id,
                   now, ticks, create>>

\* FloatingIP.allocate_for_instance: db.floating_ip_set_auto_assigned
AutoSetAssigned(c) ==
    /\ calls[c].pc = "auto_set"
    /\ floating_ips' = FloatingIpSetAutoAssigned(floating_ips, calls[c].address)
    /\ calls' = [calls EXCEPT ![c].pc = "auto_associate"]
    /\ UNCHANGED <<policy, FLAGS, networks, fixed_ips, vifs, next_vif_id,
                   now, ticks, create>>

\* FloatingIP.allocate_for_instance: the floating IP and the fixed IPs of
\* the instance are read and network_api.associate_floating_ip links the
\* floating IP to the first fixed IP; it refuses when the instance has no
\* fixed IP or the floating IP is linked.
AutoAssociate(c) ==
    /\ calls[c].pc = "auto_associate"
    /\ LET f == calls[c]
           x == f.address
           fixed_list == FixedIpGetByInstance(fixed_ips, f.instance_id)
       IN  IF fixed_list = <<>> \/ floating_ips[x].fixed_ip # None
           THEN /\ calls' = [calls EXCEPT ![c] = Finished(f, "ApiError", {})]
                /\ UNCHANGED floating_ips
           ELSE /\ floating_ips' =
                        FloatingIpFixedIpAssociate(floating_ips, x, Head(fixed_list))
                /\ calls' = [calls EXCEPT ![c] = Finished(f, "", f.ret)]
    /\ UNCHANGED <<policy, FLAGS, networks, fixed_ips, vifs, next_vif_id,
                   now, ticks, create>>

\* allocate_floating_ip(project_id), called through the API for a project:
\* a call that raises changes nothing.
AllocateFloatingIp(project_id) ==
    /\ AllocateFloatingRaised(floating_ips, project_id) = ""
    /\ \E x \in FreeFloatingIps(floating_ips) :
            floating_ips' = FloatingIpAllocateAddress(floating_ips, x, project_id)
    /\ UNCHANGED <<policy, FLAGS, networks, fixed_ips, vifs, next_vif_id,
                   calls, now, ticks, create>>

\* associate_floating_ip(floating_address, fixed_address):
\* db.floating_ip_fixed_ip_associate, then the Driver calls.  The method
\* tests nothing.
AssociateFloatingIp(x, fixed_address) ==
    /\ floating_ips' = FloatingIpFixedIpAssociate(floating_ips, x, fixed_address)
    /\ UNCHANGED <<policy, FLAGS, networks, fixed_ips, vifs, next_vif_id,
                   calls, now, ticks, create>>

\* The floating IPs a caller may name in associate_floating_ip and the
\* fixed IPs it may name: a floating IP of a project, a fixed IP an
\* instance holds.
OfProject(x) == floating_ips[x].project_id # None

OfInstance(a) == fixed_ips[a].instance_id # None

\* add_fixed_ip_to_instance is called on network host h: db.network_get,
\* then _allocate_fixed_ips with that one network.
AddFixedIpToInstance(c, h, i, compute_host, nid) ==
    /\ CanStart(c)
    /\ nid \in DOMAIN networks
    /\ calls' = [calls EXCEPT ![c] =
            [IdleFrame EXCEPT !.op = "add_fixed_ip_to_instance", !.host = h,
                              !.instance_id = i, !.host_arg = compute_host,
                              !.nets = <<nid>>, !.n = 1, !.pc = "fan_out"]]
    /\ UNCHANGED <<policy, FLAGS, networks, fixed_ips, vifs, next_vif_id,
                   floating_ips, now, ticks, create>>

---------------------------------------------------------------------------
(* deallocate_for_instance (manager.py:215-243, 391-407) and               *)
(* deallocate_fixed_ip (manager.py:517-521, 710-714).                      *)

\* fixed_ip.floating_ips of the rows of fixed_list, in the order the two
\* loops of FloatingIP.deallocate_for_instance visit them.
RECURSIVE FloatingIpsOf(_, _)
FloatingIpsOf(flips, fixed_list) ==
    IF fixed_list = <<>> THEN <<>>
    ELSE LET mine == {x \in DOMAIN flips : flips[x].fixed_ip = Head(fixed_list)}
             RECURSIVE Rows(_)
             Rows(seq) ==
                IF seq = <<>> THEN <<>>
                ELSE <<[address |-> Head(seq),
                        auto_assigned |-> flips[Head(seq)].auto_assigned]>>
                     \o Rows(Tail(seq))
         IN  Rows(SortedSeq(mine)) \o FloatingIpsOf(flips, Tail(fixed_list))

\* NetworkManager.deallocate_for_instance has the fixed IPs of the
\* instance: it deallocates each, then deletes the VIFs.
StartDeallocate(f, fixed_list) ==
    IF fixed_list = <<>> THEN [f EXCEPT !.pc = "delete_vifs", !.n = 0]
    ELSE [f EXCEPT !.fixed_list = fixed_list, !.pc = "dealloc", !.n = 1]

\* NetworkManager.deallocate_for_instance is entered from the mixin with
\* kwargs['fixed_ips']: an empty list makes it read the fixed IPs again.
EnterDeallocate(f) ==
    IF f.fixed_list = <<>>
    THEN [f EXCEPT !.pc = "read_fixed_ips", !.n = 0]
    ELSE [f EXCEPT !.pc = "dealloc", !.n = 1]

\* deallocate_for_instance is called on network host h: its first Store
\* call is db.fixed_ip_get_by_instance, made by the FloatingIP mixin (which
\* goes through the floating IPs of the rows first) or by NetworkManager.
DeallocateForInstance(c, h, i) ==
    /\ CanStart(c)
    /\ LET f == [IdleFrame EXCEPT !.op = "deallocate_for_instance", !.host = h,
                                  !.instance_id = i]
           fixed_list == FixedIpGetByInstance(fixed_ips, i)
           floats == FloatingIpsOf(floating_ips, fixed_list)
       IN  calls' = [calls EXCEPT ![c] =
                IF HasFloatingMixin(policy)
                THEN IF floats = <<>>
                     THEN EnterDeallocate([f EXCEPT !.fixed_list = fixed_list])
                     ELSE [f EXCEPT !.fixed_list = fixed_list, !.floats = floats,
                                    !.pc = "floating", !.n = 1]
                ELSE StartDeallocate(f, fixed_list)]
    /\ UNCHANGED <<policy, FLAGS, networks, fixed_ips, vifs, next_vif_id,
                   floating_ips, now, ticks, create>>

\* db.floating_ip_disassociate
FloatingIpDisassociate(flips, address) ==
    [flips EXCEPT ![address].fixed_ip = None]

\* db.floating_ip_deallocate
FloatingIpDeallocate(flips, address) ==
    [flips EXCEPT ![address].project_id = None, ![address].auto_assigned = FALSE]

\* The loop over the floating IPs moves on, or NetworkManager's
\* deallocate_for_instance starts.
NextFloating(f) ==
    IF f.n < Len(f.floats)
    THEN [f EXCEPT !.n = f.n + 1, !.pc = "floating"]
    ELSE EnterDeallocate([f EXCEPT !.floats = <<>>])

\* The loop of FloatingIP.deallocate_for_instance without its test of
\* floating_ip['auto_assigned']: nothing is released.
DisassociateFloating_NoRelease(c) ==
    /\ calls[c].pc = "floating"
    /\ LET f == calls[c]
           fl == f.floats[f.n]
       IN  /\ floating_ips' = FloatingIpDisassociate(floating_ips, fl.address)
           /\ calls' = [calls EXCEPT ![c] = NextFloating(f)]
    /\ UNCHANGED <<policy, FLAGS, networks, fixed_ips, vifs, next_vif_id,
                   now, ticks, create>>

\* FloatingIP.deallocate_for_instance: network_api.disassociate_floating_ip
DisassociateFloating(c) ==
    /\ calls[c].pc = "floating"
    /\ LET f == calls[c]
           fl == f.floats[f.n]
       IN  /\ floating_ips' = FloatingIpDisassociate(floating_ips, fl.address)
           /\ calls' = [calls EXCEPT ![c] =
                    IF fl.auto_assigned THEN [f EXCEPT !.pc = "floating_release"]
                    ELSE NextFloating(f)]
    /\ UNCHANGED <<policy, FLAGS, networks, fixed_ips, vifs, next_vif_id,
                   now, ticks, create>>

\* FloatingIP.deallocate_for_instance: network_api.release_floating_ip
ReleaseFloating(c) ==
    /\ calls[c].pc = "floating_release"
    /\ LET f == calls[c]
           fl == f.floats[f.n]
       IN  /\ floating_ips' = FloatingIpDeallocate(floating_ips, fl.address)
           /\ calls' = [calls EXCEPT ![c] = NextFloating(f)]
    /\ UNCHANGED <<policy, FLAGS, networks, fixed_ips, vifs, next_vif_id,
                   now, ticks, create>>

\* NetworkManager.deallocate_for_instance: db.fixed_ip_get_by_instance
ReadFixedIps(c) ==
    /\ calls[c].pc = "read_fixed_ips"
    /\ LET f == calls[c]
           fixed_list == FixedIpGetByInstance(fixed_ips, f.instance_id)
       IN  calls' = [calls EXCEPT ![c] = StartDeallocate(f, fixed_list)]
    /\ UNCHANGED <<policy, FLAGS, networks, fixed_ips, vifs, next_vif_id,
                   floating_ips, now, ticks, create>>

\* The loop over the fixed IPs moves on, or the VIFs are deleted.
NextFixedIp(f) ==
    IF f.n < Len(f.fixed_list)
    THEN [f EXCEPT !.n = f.n + 1, !.pc = "dealloc"]
    ELSE [f EXCEPT !.n = 0, !.pc = "delete_vifs"]

\* deallocate_fixed_ip as NetworkManager alone defines it, were
\* FlatManager not to override it.
DeallocateFixedIp_NoOverride(c) ==
    /\ calls[c].pc = "dealloc"
    /\ LET f == calls[c]
           a == f.fixed_list[f.n]
       IN  /\ fixed_ips' = FixedIpUpdate(fixed_ips, a,
                    [allocated |-> FALSE, virtual_interface_id |-> None], now)
           /\ calls' = [calls EXCEPT ![c] = NextFixedIp(f)]
    /\ UNCHANGED <<policy, FLAGS, networks, vifs, next_vif_id,
                   floating_ips, now, ticks, create>>

\* NetworkManager.deallocate_fixed_ip: db.fixed_ip_update.  FlatManager
\* goes on to db.fixed_ip_disassociate.
DeallocateFixedIp(c) ==
    /\ calls[c].pc = "dealloc"
    /\ LET f == calls[c]
           a == f.fixed_list[f.n]
       IN  /\ fixed_ips' = FixedIpUpdate(fixed_ips, a,
                    [allocated |-> FALSE, virtual_interface_id |-> None], now)
           /\ calls' = [calls EXCEPT ![c] =
                    IF policy = "Flat" THEN [f EXCEPT !.pc = "dealloc_disassociate"]
                    ELSE NextFixedIp(f)]
    /\ UNCHANGED <<policy, FLAGS, networks, vifs, next_vif_id,
                   floating_ips, now, ticks, create>>

\* FlatManager.deallocate_fixed_ip: db.fixed_ip_disassociate
DeallocateDisassociate(c) ==
    /\ calls[c].pc = "dealloc_disassociate"
    /\ LET f == calls[c]
           a == f.fixed_list[f.n]
       IN  /\ fixed_ips' = FixedIpDisassociate(fixed_ips, a, now)
           /\ calls' = [calls EXCEPT ![c] = NextFixedIp(f)]
    /\ UNCHANGED <<policy, FLAGS, networks, vifs, next_vif_id,
                   floating_ips, now, ticks, create>>

\* deallocate_for_instance without its
\* db.virtual_interface_delete_by_instance
DeleteVifs_KeepRows(c) ==
    /\ calls[c].pc = "delete_vifs"
    /\ calls' = [calls EXCEPT ![c] = Finished(calls[c], "", {})]
    /\ UNCHANGED <<policy, FLAGS, networks, fixed_ips, vifs, next_vif_id,
                   floating_ips, now, ticks, create>>

\* NetworkManager.deallocate_for_instance:
\* db.virtual_interface_delete_by_instance
DeleteVifs(c) ==
    /\ calls[c].pc = "delete_vifs"
    /\ vifs' = VifDeleteByInstance(vifs, calls[c].instance_id)
    /\ calls' = [calls EXCEPT ![c] = Finished(calls[c], "", {})]
    /\ UNCHANGED <<policy, FLAGS, networks, fixed_ips, next_vif_id,
                   floating_ips, now, ticks, create>>

---------------------------------------------------------------------------
(* lease_fixed_ip (manager.py:523-538) and release_fixed_ip                *)
(* (manager.py:540-562), called by dhcp-bridge.                            *)

\* The columns of the row the two methods keep from
\* db.fixed_ip_get_by_address
SeenOf(row) ==
    [instance_id |-> row.instance_id, allocated |-> row.allocated,
     leased |-> row.leased]

\* lease_fixed_ip without its test of fixed_ip['instance']
LeaseFixedIp_NoInstanceTest(c, h, a) ==
    /\ CanStart(c)
    /\ a \in DOMAIN fixed_ips
    /\ LET f == [IdleFrame EXCEPT !.op = "lease_fixed_ip", !.host = h,
                                  !.address = a]
       IN  calls' = [calls EXCEPT ![c] =
                [f EXCEPT !.seen = SeenOf(fixed_ips[a]), !.pc = "lease_update"]]
    /\ UNCHANGED <<policy, FLAGS, networks, fixed_ips, vifs, next_vif_id,
                   floating_ips, now, ticks, create>>

\* lease_fixed_ip(address) is called: db.fixed_ip_get_by_address, and the
\* error when the row has no instance.
LeaseFixedIp(c, h, a) ==
    /\ CanStart(c)
    /\ a \in DOMAIN fixed_ips
    /\ LET f == [IdleFrame EXCEPT !.op = "lease_fixed_ip", !.host = h,
                                  !.address = a]
       IN  calls' = [calls EXCEPT ![c] =
                IF fixed_ips[a].instance_id = None
                THEN Finished(f, "Error", {})
                ELSE [f EXCEPT !.seen = SeenOf(fixed_ips[a]), !.pc = "lease_update"]]
    /\ UNCHANGED <<policy, FLAGS, networks, fixed_ips, vifs, next_vif_id,
                   floating_ips, now, ticks, create>>

\* lease_fixed_ip: db.fixed_ip_update with leased and updated_at
LeaseUpdate(c) ==
    /\ calls[c].pc = "lease_update"
    /\ fixed_ips' = FixedIpUpdate(fixed_ips, calls[c].address,
                                  [leased |-> TRUE], now)
    /\ calls' = [calls EXCEPT ![c] = Finished(calls[c], "", {})]
    /\ UNCHANGED <<policy, FLAGS, networks, vifs, next_vif_id,
                   floating_ips, now, ticks, create>>

\* release_fixed_ip(address) is called: db.fixed_ip_get_by_address, and the
\* error when the row has no instance.
ReleaseFixedIp(c, h, a) ==
    /\ CanStart(c)
    /\ a \in DOMAIN fixed_ips
    /\ LET f == [IdleFrame EXCEPT !.op = "release_fixed_ip", !.host = h,
                                  !.address = a]
       IN  calls' = [calls EXCEPT ![c] =
                IF fixed_ips[a].instance_id = None
                THEN Finished(f, "Error", {})
                ELSE [f EXCEPT !.seen = SeenOf(fixed_ips[a]), !.pc = "release_update"]]
    /\ UNCHANGED <<policy, FLAGS, networks, fixed_ips, vifs, next_vif_id,
                   floating_ips, now, ticks, create>>

\* release_fixed_ip without its test of fixed_ip['allocated']: every
\* release goes on to db.fixed_ip_disassociate.
ReleaseUpdate_AlwaysDisassociate(c) ==
    /\ calls[c].pc = "release_update"
    /\ fixed_ips' = FixedIpUpdate(fixed_ips, calls[c].address,
                                  [leased |-> FALSE], now)
    /\ calls' = [calls EXCEPT ![c] = [calls[c] EXCEPT !.pc = "release_disassociate"]]
    /\ UNCHANGED <<policy, FLAGS, networks, vifs, next_vif_id,
                   floating_ips, now, ticks, create>>

\* release_fixed_ip: db.fixed_ip_update with leased; the method ends here
\* when the row it read was allocated.
ReleaseUpdate(c) ==
    /\ calls[c].pc = "release_update"
    /\ fixed_ips' = FixedIpUpdate(fixed_ips, calls[c].address,
                                  [leased |-> FALSE], now)
    /\ calls' = [calls EXCEPT ![c] =
            IF calls[c].seen.allocated THEN Finished(calls[c], "", {})
            ELSE [calls[c] EXCEPT !.pc = "release_disassociate"]]
    /\ UNCHANGED <<policy, FLAGS, networks, vifs, next_vif_id,
                   floating_ips, now, ticks, create>>

\* release_fixed_ip: db.fixed_ip_disassociate for a row read unallocated;
\* with update_dhcp_on_disassociate the method goes on to
\* self._update_dhcp, which the class does not have.
ReleaseDisassociate(c) ==
    /\ calls[c].pc = "release_disassociate"
    /\ fixed_ips' = FixedIpDisassociate(fixed_ips, calls[c].address, now)
    /\ calls' = [calls EXCEPT ![c] =
            Finished(calls[c],
                     IF FLAGS.update_dhcp_on_disassociate THEN "AttributeError"
                     ELSE "", {})]
    /\ UNCHANGED <<policy, FLAGS, networks, vifs, next_vif_id,
                   floating_ips, now, ticks, create>>

---------------------------------------------------------------------------
(* periodic_tasks (manager.py:327-341), set_network_hosts and              *)
(* set_network_host (manager.py:343-360).                                  *)

\* The instant before which periodic_tasks takes a deallocated fixed IP to
\* be stale
SweepCutoff(t) == t - fixed_ip_disassociate_timeout

\* The networks set_network_hosts finds without a host, in the order of
\* db.network_get_all
Unclaimed(nets) ==
    SelectIds(NetworkGetAll(nets), {id \in DOMAIN nets : nets[id].host = None})

IdleTick(t) == [t EXCEPT !.pc = "idle", !.network_id = None]

\* periodic_tasks with a set_network_hosts that goes for the first network
\* of the list, held or not, while some network has no host
PeriodicTasks_FirstNetwork(h) ==
    /\ ticks[h].pc = "idle"
    /\ fixed_ips' =
            IF timeout_fixed_ips(policy)
            THEN FixedIpDisassociateAllByTimeout(fixed_ips, networks, h,
                                                 SweepCutoff(now), now)
            ELSE fixed_ips
    /\ ticks' = [ticks EXCEPT ![h] =
            IF Unclaimed(networks) = <<>>
            THEN [@ EXCEPT !.last_run = now]
            ELSE [@ EXCEPT !.last_run = now, !.pc = "set_network_host",
                           !.network_id = Head(NetworkGetAll(networks))]]
    /\ UNCHANGED <<policy, FLAGS, networks, vifs, next_vif_id,
                   floating_ips, calls, now, create>>

\* periodic_tasks without the test of timeout_fixed_ips
PeriodicTasks_AlwaysSweep(h) ==
    /\ ticks[h].pc = "idle"
    /\ fixed_ips' = FixedIpDisassociateAllByTimeout(fixed_ips, networks, h,
                                                    SweepCutoff(now), now)
    /\ ticks' = [ticks EXCEPT ![h] =
            IF Unclaimed(networks) = <<>>
            THEN [@ EXCEPT !.last_run = now]
            ELSE [@ EXCEPT !.last_run = now, !.pc = "set_network_host",
                           !.network_id = Head(Unclaimed(networks))]]
    /\ UNCHANGED <<policy, FLAGS, networks, vifs, next_vif_id,
                   floating_ips, calls, now, create>>

\* periodic_tasks on host h: the sweep of the stale fixed IPs when the
\* class has timeout_fixed_ips, then set_network_hosts, which stops at the
\* first network without a host; last_run records when the host ran it.
PeriodicTasks(h) ==
    /\ ticks[h].pc = "idle"
    /\ fixed_ips' =
            IF timeout_fixed_ips(policy)
            THEN FixedIpDisassociateAllByTimeout(fixed_ips, networks, h,
                                                 SweepCutoff(now), now)
            ELSE fixed_ips
    /\ ticks' = [ticks EXCEPT ![h] =
            IF Unclaimed(networks) = <<>>
            THEN [@ EXCEPT !.last_run = now]
            ELSE [@ EXCEPT !.last_run = now, !.pc = "set_network_host",
                           !.network_id = Head(Unclaimed(networks))]]
    /\ UNCHANGED <<policy, FLAGS, networks, vifs, next_vif_id,
                   floating_ips, calls, now, create>>

\* db.network_set_host(network_id, host): the first host to ask holds the
\* network; the call returns the host that holds it.
NetworkSetHost(nets, network_id, host) ==
    IF nets[network_id].host = None
    THEN [nets EXCEPT ![network_id].host = host]
    ELSE nets

\* SetNetworkHost without the test host == self.host
SetNetworkHost_NoOwnerTest(h) ==
    /\ ticks[h].pc = "set_network_host"
    /\ networks' = NetworkSetHost(networks, ticks[h].network_id, h)
    /\ ticks' = [ticks EXCEPT ![h].pc = "on_set_network_host"]
    /\ UNCHANGED <<policy, FLAGS, fixed_ips, vifs, next_vif_id,
                   floating_ips, calls, now, create>>

\* set_network_host on host h: db.network_set_host, and whether the host it
\* returns is this host; lost records the networks another host held.
SetNetworkHost(h) ==
    /\ ticks[h].pc = "set_network_host"
    /\ LET nid == ticks[h].network_id
           nets == NetworkSetHost(networks, nid, h)
           host == nets[nid].host
       IN  /\ networks' = nets
           /\ ticks' = [ticks EXCEPT ![h] =
                    IF host = h THEN [@ EXCEPT !.pc = "on_set_network_host"]
                    ELSE IdleTick([@ EXCEPT !.lost = @ \cup {nid}])]
    /\ UNCHANGED <<policy, FLAGS, fixed_ips, vifs, next_vif_id,
                   floating_ips, calls, now, create>>

\* _on_set_network_host on host h (manager.py:723-728, 771-787, 878-907):
\* the host sets the network up; hooked records the networks it has set up.
OnSetNetworkHost(h) ==
    /\ ticks[h].pc = "on_set_network_host"
    /\ ticks' = [ticks EXCEPT ![h] =
            IdleTick([@ EXCEPT !.hooked = @ \cup {ticks[h].network_id}])]
    /\ UNCHANGED <<policy, FLAGS, networks, fixed_ips, vifs, next_vif_id,
                   floating_ips, calls, now, create>>

\* Time passes: more than fixed_ip_disassociate_timeout seconds, so that
\* a row is stale one step after its last update and not before.
ClockStep == fixed_ip_disassociate_timeout + 1

Tick ==
    /\ now < MaxTicks * ClockStep
    /\ now' = now + ClockStep
    /\ UNCHANGED <<policy, FLAGS, networks, fixed_ips, vifs, next_vif_id,
                   floating_ips, calls, ticks, create>>

---------------------------------------------------------------------------
(* The deployment: the networks an administrator created with              *)
(* create_networks, each picked up by a network host.                      *)

\* The arguments of the create_networks call that made a deployment of
\* num_networks networks: fixed_range is a /24, vlan_start and vpn_start
\* have the values of their flags.
DeployArgs(num_networks) ==
    [cidr |-> [ip |-> 0, bits |-> 24], num_networks |-> num_networks,
     network_size |-> Pow2(NetSizeBits), vlan_start |-> 100, vpn_start |-> 1000]

\* The Store after create_networks
DeployedDb(pol, num_networks) ==
    CreateNetworks(EmptyDb, pol, DeployArgs(num_networks)).db

\* The networks once the hosts have picked them up: network 1 by host 1,
\* network 2 by host 2, and so on in turn.
PickedUp(nets) ==
    [id \in DOMAIN nets |->
        [nets[id] EXCEPT !.host = ((id - 1) % Cardinality(Hosts)) + 1]]

\* The network host the compute API's calls are delivered to
ApiHost == CHOOSE h \in Hosts : \A g \in Hosts : h <= g

IdleTicks ==
    [h \in Hosts |-> [pc |-> "idle", network_id |-> None, hooked |-> {},
                      lost |-> {}, last_run |-> None]]

IdleCreate ==
    [pc |-> "idle", args |-> DeployArgs(NumNetworks), index |-> 0, raised |-> "",
     issued |-> 0]

\* auto_assign_floating_ip is no flag of manager.py: "undefined" unless
\* another module defines it.
DefaultFlags ==
    [fake_network |-> FALSE, update_dhcp_on_disassociate |-> FALSE,
     auto_assign_floating_ip |-> "undefined"]

\* The addresses dhcp-bridge reports leases and releases of: the ones the
\* pool has handed out at some time (dnsmasq knows no other).
DhcpAddresses ==
    {a \in DOMAIN fixed_ips : ~fixed_ips[a].reserved /\ fixed_ips[a].updated_at # None}

Init ==
    /\ policy \in Policies
    /\ FLAGS \in {[DefaultFlags EXCEPT !.fake_network = b] : b \in BOOLEAN}
    /\ networks = PickedUp(DeployedDb(policy, NumNetworks).networks)
    /\ fixed_ips = DeployedDb(policy, NumNetworks).fixed_ips
    /\ vifs = {}
    /\ next_vif_id = 1
    /\ floating_ips = <<>>
    /\ calls = [c \in 1..MaxCalls |-> IdleFrame]
    /\ now = 0
    /\ ticks = IdleTicks
    /\ create = IdleCreate

Next ==
    \/ \E c \in DOMAIN calls, h \in {ApiHost}, i \in Instances :
            AllocateForInstance(c, h, i, h)
    \/ \E c \in DOMAIN calls, h \in {ApiHost}, i \in Instances, nid \in DOMAIN networks :
            AddFixedIpToInstance(c, h, i, h, nid)
    \/ \E c \in DOMAIN calls, h \in {ApiHost}, i \in Instances :
            DeallocateForInstance(c, h, i)
    \/ \E c \in DOMAIN calls, h \in {ApiHost}, a \in DhcpAddresses : LeaseFixedIp(c, h, a)
    \/ \E c \in DOMAIN calls, h \in {ApiHost}, a \in DhcpAddresses : ReleaseFixedIp(c, h, a)
    \/ \E c \in DOMAIN calls : AllocateMacAddress(c)
    \/ \E c \in DOMAIN calls : MacRollback(c)
    \/ \E c \in DOMAIN calls : FanOut(c)
    \/ \E c \in DOMAIN calls, nid \in DOMAIN networks : AllocateClaim(c, nid)
    \/ \E c \in DOMAIN calls, nid \in DOMAIN networks : AllocateLookup(c, nid)
    \/ \E c \in DOMAIN calls, nid \in DOMAIN networks : AllocateUpdate(c, nid)
    \/ \E c \in DOMAIN calls : ReturnFromAllocate(c)
    \/ \E c \in DOMAIN calls : ReadFixedIps(c)
    \/ \E c \in DOMAIN calls : DeallocateFixedIp(c)
    \/ \E c \in DOMAIN calls : DeallocateDisassociate(c)
    \/ \E c \in DOMAIN calls : DeleteVifs(c)
    \/ \E c \in DOMAIN calls : LeaseUpdate(c)
    \/ \E c \in DOMAIN calls : ReleaseUpdate(c)
    \/ \E c \in DOMAIN calls : ReleaseDisassociate(c)

Spec == Init /\ [][Next]_vars

---------------------------------------------------------------------------
(* create_networks called by an administrator on an empty Store            *)
(* (manager.py:564-627, 861-876): one iteration of its loop is one step.   *)

\* The network sizes, fixed ranges and vlan_start values the calls are
\* made with.  Every call of a behaviour has the same network_size, so two
\* subnets have the same cidr or no address in common.
NetworkSizes == {Pow2(k) : k \in 1..(NetSizeBits + 1)}

FixedRanges(network_size) ==
    {[ip |-> 0, bits |-> 32 - (NetSizeBits + 2)],
     [ip |-> network_size, bits |-> 32 - Log2Int(network_size)]}

VlanStarts == {100, 4093}

\* create_networks is called: VlanManager.create_networks makes its two
\* checks and calls the base method, whose loop starts at index 0.
CreateNetworksCall(cidr, num_networks, vlan_start) ==
    /\ create.pc \in {"idle", "done"}
    /\ create.issued < MaxCreates
    /\ LET a == [create.args EXCEPT !.cidr = cidr, !.num_networks = num_networks,
                                    !.vlan_start = vlan_start]
           c == [create EXCEPT !.args = a, !.index = 0, !.raised = "",
                               !.issued = @ + 1]
       IN  create' = IF policy = "VLAN" /\ VlanArgsError(a)
                     THEN [c EXCEPT !.pc = "done", !.raised = "ValueError"]
                     ELSE [c EXCEPT !.pc = "loop"]
    /\ UNCHANGED <<policy, FLAGS, networks, fixed_ips, vifs, next_vif_id,
                   floating_ips, calls, now, ticks>>

\* One iteration of the loop of create_networks, or its end.
CreateNetworksStep ==
    /\ create.pc = "loop"
    /\ IF create.index >= create.args.num_networks
       THEN /\ create' = [create EXCEPT !.pc = "done"]
            /\ UNCHANGED <<networks, fixed_ips>>
       ELSE LET r == CreateNetworksIter([networks |-> networks,
                                         fixed_ips |-> fixed_ips],
                                        policy, create.args, create.index)
            IN  /\ networks' = r.db.networks
                /\ fixed_ips' = r.db.fixed_ips
                /\ create' = IF r.raised # ""
                             THEN [create EXCEPT !.pc = "done",
                                                 !.raised = r.raised]
                             ELSE [create EXCEPT !.index = @ + 1]
    /\ UNCHANGED <<policy, FLAGS, vifs, next_vif_id, floating_ips, calls,
                   now, ticks>>

InitCreate ==
    /\ policy \in Policies
    /\ FLAGS = DefaultFlags
    /\ networks = EmptyDb.networks
    /\ fixed_ips = EmptyDb.fixed_ips
    /\ vifs = {}
    /\ next_vif_id = 1
    /\ floating_ips = <<>>
    /\ calls = [c \in 1..MaxCalls |-> IdleFrame]
    /\ now = 0
    /\ ticks = IdleTicks
    /\ create \in {[IdleCreate EXCEPT !.args.network_size = s] : s \in NetworkSizes}

NextCreate ==
    \/ \E cidr \in FixedRanges(create.args.network_size),
          num_networks \in 1..NumNetworks, vlan_start \in VlanStarts :
            CreateNetworksCall(cidr, num_networks, vlan_start)
    \/ CreateNetworksStep

SpecCreate == InitCreate /\ [][NextCreate]_vars

\* The rows of network id with reserved=true
ReservedOf(id) ==
    {a \in DOMAIN fixed_ips : fixed_ips[a].network_id = id /\ fixed_ips[a].reserved}

\* The first bottom addresses and the last top addresses of a network
FirstAndLast(net, bottom, top) ==
    {NetFirst(net.cidr) + j : j \in 0..(bottom - 1)}
        \cup {net.broadcast - j : j \in 0..(top - 1)}

\* C8: for every network create_networks made, the rows with reserved=true
\* are exactly the first bottom_reserved and the last top_reserved
\* addresses of the subnet: 2 + 1 under the flat policies, 3 + 1 +
\* cnt_vpn_clients under VLAN.
C8_ReservedFirstAndLast ==
    \A id \in DOMAIN networks :
        /\ ReservedOf(id) = FirstAndLast(networks[id], BottomReservedIps(policy),
                                         TopReservedIps(policy))
        /\ Cardinality(ReservedOf(id)) =
                IF policy = "VLAN" THEN 3 + 1 + cnt_vpn_clients ELSE 2 + 1

\* What _create_fixed_ips reserves: the first bottom_reserved addresses and
\* the last top_reserved - 1 addresses, which leaves the broadcast
\* address out.
C8_ReservedAsCoded ==
    \A id \in DOMAIN networks :
        ReservedOf(id) = FirstAndLast(networks[id], BottomReservedIps(policy),
                                      TopReservedIps(policy) - 1)

---------------------------------------------------------------------------
(* The network hosts start on a deployment whose networks no host holds:   *)
(* their periodic tasks pick the networks up.                              *)

InitHosts ==
    /\ policy \in Policies
    /\ FLAGS \in {[DefaultFlags EXCEPT !.fake_network = b] : b \in BOOLEAN}
    /\ networks = DeployedDb(policy, NumNetworks).networks
    /\ fixed_ips = DeployedDb(policy, NumNetworks).fixed_ips
    /\ vifs = {}
    /\ next_vif_id = 1
    /\ floating_ips = <<>>
    /\ calls = [c \in 1..MaxCalls |-> IdleFrame]
    /\ now = 0
    /\ ticks = IdleTicks
    /\ create = IdleCreate

NextHosts ==
    \/ \E h \in Hosts : PeriodicTasks(h)
    \/ \E h \in Hosts : SetNetworkHost(h)
    \/ \E h \in Hosts : OnSetNetworkHost(h)
    \/ Tick

SpecHosts == InitHosts /\ [][NextHosts]_vars

\* C3: at most one host ever holds a network: of the hosts that race
\* set_network_host on a network one is recorded, the host recorded is never
\* replaced, and _on_set_network_host runs only on the host recorded.
C3_OneOwnerNeverOverwritten ==
    /\ [](\A h \in Hosts :
            /\ ticks[h].pc = "on_set_network_host" =>
                    networks[ticks[h].network_id].host = h
            /\ \A nid \in ticks[h].hooked : networks[nid].host = h
            /\ \A nid \in ticks[h].lost : networks[nid].host \in Hosts \ {h})
    /\ [][\A nid \in DOMAIN networks :
            /\ networks[nid].host # None => networks'[nid].host = networks[nid].host
            /\ \A h \in Hosts :
                (ticks[h].pc = "set_network_host" /\ ticks'[h].pc # "set_network_host"
                        /\ ticks[h].network_id = nid)
                    => networks'[nid].host \in Hosts]_vars

\* Two hosts raced for a network: one ran the hook, the other found the
\* network held.
C3_RaceLostAndWon ==
    \E h, g \in Hosts : \E nid \in DOMAIN networks :
        /\ h # g
        /\ nid \in ticks[h].hooked
        /\ nid \in ticks[g].lost

---------------------------------------------------------------------------
(* The life of an address an instance holds: the compute API deallocates   *)
(* the instance, dhcp-bridge reports leases and releases, the network      *)
(* hosts run their periodic tasks and time passes.                         *)

FirstInstance == CHOOSE i \in Instances : \A j \in Instances : i <= j

\* The Store once allocate_for_instance has returned for instance_id on a
\* deployment of one network: the VIF row of _allocate_mac_addresses and
\* the row of address as allocate_fixed_ip leaves it.
AllocatedDb(pol, instance_id, address) ==
    LET db == DeployedDb(pol, 1)
        vif == [id |-> 1, address |-> 1, instance_id |-> instance_id,
                network_id |-> db.fixed_ips[address].network_id]
    IN  [networks |-> PickedUp(db.networks),
         vifs |-> {vif},
         fixed_ips |-> FixedIpUpdate(
                FixedIpAssociatePool(db.fixed_ips, address, instance_id, 0),
                address,
                [allocated |-> TRUE, virtual_interface_id |-> vif.id], 0)]

InitLease ==
    /\ policy \in Policies \ {"Flat"}
    /\ FLAGS = [DefaultFlags EXCEPT !.fake_network = TRUE]
    /\ \E address \in PoolOf(DeployedDb(policy, 1).fixed_ips, 1) :
        LET db == AllocatedDb(policy, FirstInstance, address)
        IN  /\ networks = db.networks
            /\ fixed_ips = db.fixed_ips
            /\ vifs = db.vifs
    /\ next_vif_id = 2
    /\ floating_ips = <<>>
    /\ calls = [c \in 1..MaxLeaseCalls |-> IdleFrame]
    /\ now = 0
    /\ ticks = IdleTicks
    /\ create = IdleCreate

NextLease ==
    \/ \E c \in DOMAIN calls : DeallocateForInstance(c, ApiHost, FirstInstance)
    \/ \E c \in DOMAIN calls, a \in DhcpAddresses : LeaseFixedIp(c, ApiHost, a)
    \/ \E c \in DOMAIN calls, a \in DhcpAddresses : ReleaseFixedIp(c, ApiHost, a)
    \/ \E c \in DOMAIN calls : ReadFixedIps(c)
    \/ \E c \in DOMAIN calls : DeallocateFixedIp(c)
    \/ \E c \in DOMAIN calls : DeleteVifs(c)
    \/ \E c \in DOMAIN calls : LeaseUpdate(c)
    \/ \E c \in DOMAIN calls : ReleaseUpdate(c)
    \/ \E c \in DOMAIN calls : ReleaseDisassociate(c)
    \/ \E h \in Hosts : PeriodicTasks(h)
    \/ Tick

SpecLease == InitLease /\ [][NextLease]_vars

\* The host that holds the network of address a
OwnerOf(a) == networks[fixed_ips[a].network_id].host

\* Row a is in the state deallocate_fixed_ip leaves it in under FlatDHCP
\* and VLAN: bound to an instance and not allocated.
Deallocated(a) ==
    /\ policy # "Flat"
    /\ fixed_ips[a].instance_id # None
    /\ ~fixed_ips[a].allocated

\* Host h has run periodic_tasks more than fixed_ip_disassociate_timeout
\* after the last update of row a.
SweptSince(h, a) ==
    /\ ticks[h].last_run # None
    /\ fixed_ips[a].updated_at # None
    /\ fixed_ips[a].updated_at + fixed_ip_disassociate_timeout < ticks[h].last_run

\* deallocate_fixed_ip of FlatDHCP and VLAN leaves instance_id as it was.
DeallocateKeepsInstance ==
    \A c \in DOMAIN calls :
        (policy # "Flat" /\ calls[c].pc = "dealloc" /\ calls'[c] # calls[c]) =>
            LET a == calls[c].fixed_list[calls[c].n]
            IN  /\ fixed_ips'[a].instance_id = fixed_ips[a].instance_id
                /\ ~fixed_ips'[a].allocated

\* A release_fixed_ip that arrives for a deallocated row goes on to
\* disassociate it, and the row is free when the call ends.
ReleaseFrees ==
    \A c \in DOMAIN calls :
        /\ (calls[c].op = "none" /\ calls'[c].op = "release_fixed_ip"
                /\ Deallocated(calls'[c].address))
            => (calls'[c].pc = "release_update" /\ ~calls'[c].seen.allocated)
        /\ (calls[c].pc = "release_update" /\ ~calls[c].seen.allocated
                /\ calls'[c] # calls[c])
            => calls'[c].pc = "release_disassociate"
        /\ (calls[c].pc = "release_disassociate" /\ calls'[c] # calls[c])
            => /\ calls'[c].pc = "done"
               /\ fixed_ips'[calls[c].address].instance_id = None

\* Under FlatDHCP and VLAN a row loses its instance only in the last step
\* of a release_fixed_ip for it or in periodic_tasks on the host of its
\* network, more than the timeout after its last update.
FreedOnlyByReleaseOrSweep ==
    \A a \in DOMAIN fixed_ips :
        (policy # "Flat" /\ fixed_ips[a].instance_id # None
                /\ fixed_ips'[a].instance_id = None) =>
            \/ \E c \in DOMAIN calls :
                /\ calls[c].pc = "release_disassociate"
                /\ calls[c].address = a
                /\ calls'[c].pc = "done"
            \/ /\ calls' = calls
               /\ ticks'[OwnerOf(a)].last_run = now
               /\ ~fixed_ips[a].allocated
               /\ fixed_ips[a].updated_at + fixed_ip_disassociate_timeout < now

\* C10: FlatDHCP and VLAN deallocate_fixed_ip leave instance_id set; the
\* address returns to Free once release_fixed_ip arrives or once the host
\* of its network has run the sweep after the timeout; it does not return
\* to the pool before one of the two.
C10_FreedByReleaseOrSweep ==
    /\ [][DeallocateKeepsInstance /\ ReleaseFrees /\ FreedOnlyByReleaseOrSweep]_vars
    /\ [](\A a \in DOMAIN fixed_ips :
            Deallocated(a) => ~SweptSince(OwnerOf(a), a))

\* C10 amended: as C10, where the sweep frees the address provided the row
\* has leased=false; a row with leased=true stays bound through every
\* sweep, until a release_fixed_ip for it.
C10_FreedByReleaseOrSweepUnlessLeased ==
    /\ [][DeallocateKeepsInstance /\ ReleaseFrees /\ FreedOnlyByReleaseOrSweep]_vars
    /\ [](\A a \in DOMAIN fixed_ips :
            (Deallocated(a) /\ ~fixed_ips[a].leased) => ~SweptSince(OwnerOf(a), a))
    /\ [][\A a \in DOMAIN fixed_ips :
            (Deallocated(a) /\ fixed_ips[a].leased /\ calls' = calls)
                => fixed_ips'[a].instance_id = fixed_ips[a].instance_id]_vars

\* An address was allocated, then deallocated, and the sweep of the host of
\* its network freed it: no release_fixed_ip was ever called.
C10_SweepFreedDeallocated ==
    /\ policy # "Flat"
    /\ \A c \in DOMAIN calls : calls[c].op # "release_fixed_ip"
    /\ \E c \in DOMAIN calls :
        calls[c].op = "deallocate_for_instance" /\ calls[c].pc = "done"
    /\ \E a \in DOMAIN fixed_ips :
        /\ fixed_ips[a].instance_id = None
        /\ fixed_ips[a].updated_at = ticks[OwnerOf(a)].last_run
        /\ fixed_ips[a].updated_at > fixed_ip_disassociate_timeout

---------------------------------------------------------------------------
(* Floating IPs: a deployment of one network with a pool of floating IPs,  *)
(* where an instance is allocated and deallocated while its project        *)
(* allocates floating IPs and associates them.                             *)

\* The floating IP table of a new deployment: the rows of floating_range,
\* each of no project and linked to no fixed IP.
FloatingPool ==
    [x \in 1..NumFloating |->
        [fixed_ip |-> None, project_id |-> None, auto_assigned |-> FALSE]]

InitFloating ==
    /\ policy \in {pol \in Policies : HasFloatingMixin(pol)}
    /\ FLAGS \in {[DefaultFlags EXCEPT !.fake_network = TRUE,
                                       !.auto_assign_floating_ip = v]
                    : v \in {"undefined", "False", "True"}}
    /\ networks = PickedUp(DeployedDb(policy, 1).networks)
    /\ fixed_ips = DeployedDb(policy, 1).fixed_ips
    /\ vifs = {}
    /\ next_vif_id = 1
    /\ floating_ips = FloatingPool
    /\ calls = [c \in 1..MaxCalls |-> IdleFrame]
    /\ now = 0
    /\ ticks = IdleTicks
    /\ create = IdleCreate

NextFloatingIps ==
    \/ \E c \in DOMAIN calls : AllocateForInstance(c, ApiHost, FirstInstance, ApiHost)
    \/ \E c \in DOMAIN calls : DeallocateForInstance(c, ApiHost, FirstInstance)
    \/ \E c \in DOMAIN calls : AllocateMacAddress(c)
    \/ \E c \in DOMAIN calls : MacRollback(c)
    \/ \E c \in DOMAIN calls : FanOut(c)
    \/ \E c \in DOMAIN calls, nid \in DOMAIN networks : AllocateClaim(c, nid)
    \/ \E c \in DOMAIN calls, nid \in DOMAIN networks : AllocateLookup(c, nid)
    \/ \E c \in DOMAIN calls, nid \in DOMAIN networks : AllocateUpdate(c, nid)
    \/ \E c \in DOMAIN calls : ReturnFromAllocate(c)
    \/ \E c \in DOMAIN calls : AutoAllocate(c)
    \/ \E c \in DOMAIN calls : AutoSetAssigned(c)
    \/ \E c \in DOMAIN calls : AutoAssociate(c)
    \/ \E c \in DOMAIN calls : DisassociateFloating(c)
    \/ \E c \in DOMAIN calls : ReleaseFloating(c)
    \/ \E c \in DOMAIN calls : ReadFixedIps(c)
    \/ \E c \in DOMAIN calls : DeallocateFixedIp(c)
    \/ \E c \in DOMAIN calls : DeleteVifs(c)
    \/ AllocateFloatingIp(ProjectOf(FirstInstance))
    \/ \E x \in DOMAIN floating_ips, a \in DhcpAddresses :
            /\ OfProject(x) /\ floating_ips[x].fixed_ip = None /\ OfInstance(a)
            /\ AssociateFloatingIp(x, a)

SpecFloating == InitFloating /\ [][NextFloatingIps]_vars

\* The fixed IPs an instance holds and the floating IPs linked to them
HeldBy(instance_id) ==
    {a \in DOMAIN fixed_ips : fixed_ips[a].instance_id = instance_id}

LinkedTo(instance_id) ==
    {x \in DOMAIN floating_ips : floating_ips[x].fixed_ip \in HeldBy(instance_id)}

\* Call c of deallocate_for_instance takes a step from position pc.
DeallocateStep(c, pc) ==
    /\ calls[c].op = "deallocate_for_instance"
    /\ calls[c].pc = pc
    /\ calls'[c] # calls[c]

\* C5: under FlatDHCP and VLAN deallocate_for_instance first disassociates
\* every floating IP linked to a fixed IP of the instance (and releases it
\* when auto_assigned), then deallocates every fixed IP of the instance, and
\* only then deletes the VIFs; no VIF is deleted while a fixed IP of the
\* instance has allocated=true.
C5_FloatingThenFixedThenVifs ==
    [][\A c \in DOMAIN calls :
        /\ DeallocateStep(c, "floating") =>
                (calls[c].floats[calls[c].n].auto_assigned
                    => calls'[c].pc = "floating_release")
        /\ DeallocateStep(c, "dealloc") => LinkedTo(calls[c].instance_id) = {}
        /\ DeallocateStep(c, "delete_vifs") =>
                /\ LinkedTo(calls[c].instance_id) = {}
                /\ \A a \in HeldBy(calls[c].instance_id) : ~fixed_ips[a].allocated]_vars

\* The positions of one deallocate_for_instance call follow one another
\* in the order floating IPs, fixed IPs, VIFs, whatever other calls do.
C5_OwnStepsInOrder ==
    [][\A c \in DOMAIN calls :
        /\ DeallocateStep(c, "floating") =>
                calls'[c].pc \in {"floating", "floating_release", "dealloc"}
        /\ DeallocateStep(c, "floating_release") =>
                calls'[c].pc \in {"floating", "dealloc"}
        /\ DeallocateStep(c, "read_fixed_ips") =>
                calls'[c].pc \in {"dealloc", "delete_vifs"}
        /\ DeallocateStep(c, "dealloc") =>
                calls'[c].pc \in {"dealloc", "delete_vifs"}
        /\ DeallocateStep(c, "delete_vifs") => calls'[c].pc = "done"]_vars

---------------------------------------------------------------------------
(* Properties of the allocation engine, checked under Spec.                *)

Min(a, b) == IF a < b THEN a ELSE b

\* The calls that ran allocate_fixed_ip for network nid, and those among
\* them whose allocate_fixed_ip returned normally
Invocations(nid) == {c \in DOMAIN calls : nid \in DOMAIN calls[c].sub}

Succeeded(nid) ==
    {c \in Invocations(nid) : /\ calls[c].sub[nid].pc = "done"
                              /\ calls[c].sub[nid].raised = ""}

\* The unreserved rows of network nid
Unreserved(nid) ==
    {a \in DOMAIN fixed_ips : fixed_ips[a].network_id = nid /\ ~fixed_ips[a].reserved}

\* Every call issued is an allocate_for_instance, the instances differ,
\* every call has ended: the pool of every network was full when the first
\* call came and nothing went back to it.
OnlyAllocationsEnded ==
    /\ \A c \in DOMAIN calls :
        /\ calls[c].op \in {"none", "allocate_for_instance"}
        /\ calls[c].op # "none" => calls[c].pc = "done" /\ Pending(calls[c]) = {}
    /\ \A c, d \in DOMAIN calls :
        (c # d /\ calls[c].op # "none" /\ calls[d].op # "none")
            => calls[c].instance_id # calls[d].instance_id

\* What C1 says of network nid with k free addresses and m callers
ExactlyMinSucceed(nid) ==
    LET k == Cardinality(Unreserved(nid))
        m == Cardinality(Invocations(nid))
    IN  /\ Cardinality(Succeeded(nid)) = Min(k, m)
        /\ \A c, d \in Succeeded(nid) :
                c # d => calls[c].sub[nid].address # calls[d].sub[nid].address
        /\ \A c \in Invocations(nid) \ Succeeded(nid) :
                calls[c].sub[nid].raised = "NoMoreAddresses"

\* C1: of m concurrent allocate_fixed_ip calls by different instances on a
\* network with k free addresses, exactly min(k, m) succeed, each on its own
\* address, and every other call fails with pool-exhausted.
C1_ExactlyMinSucceed ==
    OnlyAllocationsEnded => \A nid \in DOMAIN networks : ExactlyMinSucceed(nid)

\* The statement of C1 holds when allocate_fixed_ip does not reach the call
\* of self._update_dhcp: under FlatManager, or with FLAGS.fake_network.
C1_ExactlyMinSucceedWithoutDhcp ==
    (OnlyAllocationsEnded /\ AllocateTailRaised(policy, FLAGS.fake_network) = "")
        => \A nid \in DOMAIN networks : ExactlyMinSucceed(nid)

\* Two instances raced for the last address of a network.
C1_RaceForLastAddress ==
    /\ OnlyAllocationsEnded
    /\ \E nid \in DOMAIN networks :
        /\ Cardinality(Invocations(nid)) > Cardinality(Unreserved(nid))
        /\ Succeeded(nid) # {}

\* C2: in every reachable state every FixedIP with allocated=true has an
\* instance_id and a virtual_interface_id.
C2_AllocatedHasInstanceAndVif ==
    \A a \in DOMAIN fixed_ips :
        fixed_ips[a].allocated =>
            /\ fixed_ips[a].instance_id # None
            /\ fixed_ips[a].virtual_interface_id # None

\* Call c makes the Store call fixed_ip_associate_pool for network nid in
\* this step.
ClaimIssued(c, nid) ==
    /\ nid \in DOMAIN calls[c].sub
    /\ calls[c].sub[nid].pc = "claim"
    /\ calls'[c].sub[nid].pc # "claim"

\* C4: no fixed-IP claim for an (instance, network) pair is issued unless a
\* VIF row for the pair exists, whichever entry point the claim comes from.
C4_ClaimOnlyWithVif ==
    [][\A c \in DOMAIN calls : \A nid \in DOMAIN networks :
            ClaimIssued(c, nid) => VifsOf(vifs, calls[c].instance_id, nid) # {}]_vars

\* The rows of the instance in the VIF table
VifsOfInstance(rows, instance_id) == {v \in rows : v.instance_id = instance_id}

\* Call c ends in this step with the MAC-exhausted error.
MacExhausted(c) ==
    /\ calls[c].pc # "done"
    /\ calls'[c].pc = "done"
    /\ calls'[c].raised = "VirtualInterfaceMacAddressException"

\* C6: the retry loop makes at most create_unique_mac_address_attempts
\* inserts for a network; a call goes on as long as fewer conflicted; when
\* all conflicted the call fails with the MAC-exhausted error, and then no
\* VIF row of the instance remains and the call has claimed no fixed IP.
C6_MacRetryAndRollback ==
    /\ [](\A c \in DOMAIN calls :
            /\ calls[c].attempts <= create_unique_mac_address_attempts
            /\ calls[c].pc = "mac" =>
                    calls[c].attempts < create_unique_mac_address_attempts
            /\ calls[c].pc = "mac_rollback" <=>
                    calls[c].attempts = create_unique_mac_address_attempts
            /\ calls[c].raised = "VirtualInterfaceMacAddressException" =>
                    DOMAIN calls[c].sub = {})
    /\ [][\A c \in DOMAIN calls :
            /\ MacExhausted(c) =>
                /\ calls[c].attempts = create_unique_mac_address_attempts
                /\ VifsOfInstance(vifs', calls[c].instance_id) = {}
            /\ (calls[c].pc = "mac" /\ calls'[c] # calls[c]) =>
                \/ /\ calls'[c].attempts = 0
                   /\ calls'[c].pc \in {"mac", "fan_out"}
                   /\ Cardinality(vifs') = Cardinality(vifs) + 1
                   /\ \E v \in vifs' \ vifs :
                        /\ v.instance_id = calls[c].instance_id
                        /\ v.network_id = calls[c].nets[calls[c].n]
                \/ /\ calls'[c].attempts = calls[c].attempts + 1
                   /\ vifs' = vifs]_vars

\* A call failed with the MAC-exhausted error after it had created a VIF
\* for an earlier network.
C6_ExhaustedAfterEarlierVif ==
    \E c \in DOMAIN calls :
        /\ calls[c].raised = "VirtualInterfaceMacAddressException"
        /\ calls[c].made > 0
        /\ VifsOfInstance(vifs, calls[c].instance_id) = {}

\* C7: there are never two VIF rows with the same (instance_id,
\* network_id), also when allocate_for_instance is called again for an
\* instance.
C7_OneVifPerPair ==
    \A v, w \in vifs :
        (v.instance_id = w.instance_id /\ v.network_id = w.network_id) => v = w

\* The addresses of a network that C9 names: the network address, the
\* gateway and the broadcast address and, under VlanManager, the vpn
\* private address and the cnt_vpn_clients addresses below the broadcast.
NamedSlots(nid) ==
    LET net == networks[nid]
    IN  {NetFirst(net.cidr), net.gateway, net.broadcast}
            \cup (IF policy = "VLAN"
                  THEN {net.vpn_private_address}
                          \cup {net.broadcast - j : j \in 1..cnt_vpn_clients}
                  ELSE {})

\* C9: no instance is ever bound to the network address, the gateway or the
\* broadcast address of a network (nor, under VLAN, to the vpn addresses).
C9_NoInstanceOnNamedSlot ==
    \A a \in DOMAIN fixed_ips :
        fixed_ips[a].instance_id # None => a \notin NamedSlots(fixed_ips[a].network_id)

---------------------------------------------------------------------------
(* deallocate_fixed_ip (manager.py:517-521, 710-714): what it writes.      *)

\* The columns of a fixed IP row other than updated_at that the step
\* from fips to fips2 leaves alone, given the columns it may write.
KeepsColumns(fips, fips2, a, written) ==
    \A col \in (DOMAIN fips[a] \ {"updated_at"}) \ written :
        fips2[a][col] = fips[a][col]

\* The rows other than a are the same in fips and fips2.
KeepsOtherRows(fips, fips2, a) ==
    \A b \in DOMAIN fips : b # a => fips2[b] = fips[b]

\* The step of call c that db.fixed_ip_update of deallocate_fixed_ip
\* makes: allocated and virtual_interface_id are cleared, nothing else is
\* written, and only FlatManager goes on to the disassociate.
DeallocateClears(c) ==
    (calls[c].pc = "dealloc" /\ calls'[c] # calls[c]) =>
        LET a == calls[c].fixed_list[calls[c].n]
        IN  /\ ~fixed_ips'[a].allocated
            /\ fixed_ips'[a].virtual_interface_id = None
            /\ KeepsColumns(fixed_ips, fixed_ips', a,
                            {"allocated", "virtual_interface_id"})
            /\ KeepsOtherRows(fixed_ips, fixed_ips', a)
            /\ (policy = "Flat") <=> (calls'[c].pc = "dealloc_disassociate")

\* The step of call c that db.fixed_ip_disassociate of
\* FlatManager.deallocate_fixed_ip makes: the row has no instance and is
\* in the pool of its network again; the columns the update wrote stay.
FlatDeallocateFrees(c) ==
    (calls[c].pc = "dealloc_disassociate" /\ calls'[c] # calls[c]) =>
        LET a == calls[c].fixed_list[calls[c].n]
        IN  /\ policy = "Flat"
            /\ fixed_ips'[a].instance_id = None
            /\ a \in PoolOf(fixed_ips', fixed_ips[a].network_id)
            /\ KeepsColumns(fixed_ips, fixed_ips', a, {"instance_id"})
            /\ KeepsOtherRows(fixed_ips, fixed_ips', a)
            /\ calls'[c].pc \in {"dealloc", "delete_vifs"}

\* C11: deallocate_fixed_ip sets allocated=false and
\* virtual_interface_id=null in every policy and writes no other column
\* (updated_at apart); under Flat the same operation goes on to clear
\* instance_id, after which the address has no instance and can be claimed
\* from the pool; under FlatDHCP and VLAN the operation ends with
\* instance_id and leased as they were.
C11_DeallocateFixedIpEffect ==
    [][\A c \in DOMAIN calls : DeallocateClears(c) /\ FlatDeallocateFrees(c)]_vars

\* C11 witness: a Flat deallocate_for_instance has been through
\* deallocate_fixed_ip for the address its instance held, and the address
\* is free: no instance, not allocated, no VIF, claimable.
C11_FlatDeallocatedIsFree ==
    /\ policy = "Flat"
    /\ \E c \in DOMAIN calls :
        /\ calls[c].op = "deallocate_for_instance"
        /\ calls[c].pc = "delete_vifs"
        /\ calls[c].fixed_list # <<>>
        /\ \A k \in DOMAIN calls[c].fixed_list :
            LET a == calls[c].fixed_list[k]
            IN  /\ a \in PoolOf(fixed_ips, fixed_ips[a].network_id)
                /\ ~fixed_ips[a].allocated
                /\ fixed_ips[a].virtual_interface_id = None
                /\ fixed_ips[a].updated_at # None

---------------------------------------------------------------------------
(* lease_fixed_ip (manager.py:523-538): when it writes, and what.          *)

\* Call c is issued in this step as operation op.
Issued(c, op) ==
    calls[c].op = "none" /\ calls'[c].op = op

\* The step that issues lease_fixed_ip reads the row and writes nothing:
\* without an instance the call ends with the error, with one it goes on
\* to the update whatever allocated is.
LeaseTestsInstance(c) ==
    Issued(c, "lease_fixed_ip") =>
        LET a == calls'[c].address
        IN  /\ fixed_ips' = fixed_ips
            /\ IF fixed_ips[a].instance_id = None
               THEN calls'[c].pc = "done" /\ calls'[c].raised = "Error"
               ELSE calls'[c].pc = "lease_update"

\* The update of lease_fixed_ip sets leased and updated_at on its row,
\* writes nothing else, and the call returns.
LeaseWrites(c) ==
    (calls[c].pc = "lease_update" /\ calls'[c] # calls[c]) =>
        LET a == calls[c].address
        IN  /\ fixed_ips'[a].leased
            /\ fixed_ips'[a].updated_at = now
            /\ KeepsColumns(fixed_ips, fixed_ips', a, {"leased"})
            /\ KeepsOtherRows(fixed_ips, fixed_ips', a)
            /\ calls'[c].pc = "done" /\ calls'[c].raised = ""

\* C12: lease_fixed_ip(address) sets leased=true and updated_at exactly
\* when the row it reads has an instance, whether or not the row is
\* allocated; for a row without an instance it fails with the orphan-lease
\* error and writes no column of the row.
C12_LeaseIffInstance ==
    [][\A c \in DOMAIN calls : LeaseTestsInstance(c) /\ LeaseWrites(c)]_vars

\* C12 witness: a lease_fixed_ip for an address that has gone back to the
\* pool has failed, and the row is not leased.
C12_OrphanLeaseRefused ==
    \E c \in DOMAIN calls :
        /\ calls[c].op = "lease_fixed_ip"
        /\ calls[c].pc = "done"
        /\ calls[c].raised = "Error"
        /\ fixed_ips[calls[c].address].instance_id = None
        /\ ~fixed_ips[calls[c].address].leased

\* A lease_fixed_ip for a deallocated address that still has its instance
\* has returned, and the row is leased.
C12_LeasedWhileUnallocated ==
    \E c \in DOMAIN calls :
        /\ calls[c].op = "lease_fixed_ip"
        /\ calls[c].pc = "done"
        /\ calls[c].raised = ""
        /\ fixed_ips[calls[c].address].instance_id # None
        /\ ~fixed_ips[calls[c].address].allocated
        /\ fixed_ips[calls[c].address].leased

---------------------------------------------------------------------------
(* release_fixed_ip (manager.py:540-562): when it writes, and what.        *)

\* The step that issues release_fixed_ip reads the row and writes nothing:
\* without an instance the call ends with the error, with one it goes on
\* to the update, keeping the allocated flag it read.
ReleaseTestsInstance(c) ==
    Issued(c, "release_fixed_ip") =>
        LET a == calls'[c].address
        IN  /\ fixed_ips' = fixed_ips
            /\ IF fixed_ips[a].instance_id = None
               THEN calls'[c].pc = "done" /\ calls'[c].raised = "Error"
               ELSE /\ calls'[c].pc = "release_update"
                    /\ calls'[c].seen.allocated = fixed_ips[a].allocated

\* The update of release_fixed_ip clears leased on its row and writes
\* nothing else; for a row read allocated the call returns here, with
\* instance_id and allocated untouched.
ReleaseWrites(c) ==
    (calls[c].pc = "release_update" /\ calls'[c] # calls[c]) =>
        LET a == calls[c].address
        IN  /\ ~fixed_ips'[a].leased
            /\ KeepsColumns(fixed_ips, fixed_ips', a, {"leased"})
            /\ KeepsOtherRows(fixed_ips, fixed_ips', a)
            /\ IF calls[c].seen.allocated
               THEN calls'[c].pc = "done" /\ calls'[c].raised = ""
               ELSE calls'[c].pc = "release_disassociate"

\* For a row read unallocated release_fixed_ip goes on to clear
\* instance_id, writes nothing else, and the call ends.
ReleaseFreesUnallocated(c) ==
    (calls[c].pc = "release_disassociate" /\ calls'[c] # calls[c]) =>
        LET a == calls[c].address
        IN  /\ ~calls[c].seen.allocated
            /\ fixed_ips'[a].instance_id = None
            /\ KeepsColumns(fixed_ips, fixed_ips', a, {"instance_id"})
            /\ KeepsOtherRows(fixed_ips, fixed_ips', a)
            /\ calls'[c].pc = "done"

\* A lease of a leased row leaves it leased, a release of a row that is
\* not leased leaves it not leased.
RepeatKeepsLeased(c) ==
    /\ (calls[c].pc = "lease_update" /\ calls'[c] # calls[c]
            /\ fixed_ips[calls[c].address].leased)
         => fixed_ips'[calls[c].address].leased
    /\ (calls[c].pc = "release_update" /\ calls'[c] # calls[c]
            /\ ~fixed_ips[calls[c].address].leased)
         => ~fixed_ips'[calls[c].address].leased

\* C13: release_fixed_ip(address) on a row with an instance sets
\* leased=false; it clears instance_id exactly when the row it read is
\* unallocated, and leaves instance_id and allocated of an allocated row
\* untouched; a repeated lease or release leaves leased at the value the
\* operation sets.
C13_ReleaseEffect ==
    [][\A c \in DOMAIN calls :
            /\ ReleaseTestsInstance(c)
            /\ ReleaseWrites(c)
            /\ ReleaseFreesUnallocated(c)
            /\ RepeatKeepsLeased(c)]_vars

\* C13 witness: a release_fixed_ip for a deallocated address has returned
\* and the row has neither lease nor instance.
C13_ReleasedUnallocatedFreed ==
    \E c \in DOMAIN calls :
        /\ calls[c].op = "release_fixed_ip"
        /\ calls[c].pc = "done"
        /\ calls[c].raised = ""
        /\ fixed_ips[calls[c].address].instance_id = None
        /\ ~fixed_ips[calls[c].address].allocated
        /\ ~fixed_ips[calls[c].address].leased

\* Two release_fixed_ip calls for one allocated address have returned:
\* the row is not leased and keeps its instance and its allocated flag.
C13_ReleasedTwiceKeepsInstance ==
    \E c, d \in DOMAIN calls :
        /\ c # d
        /\ calls[c].op = "release_fixed_ip" /\ calls[d].op = "release_fixed_ip"
        /\ calls[c].pc = "done" /\ calls[d].pc = "done"
        /\ calls[c].raised = "" /\ calls[d].raised = ""
        /\ calls[c].address = calls[d].address
        /\ fixed_ips[calls[c].address].instance_id # None
        /\ fixed_ips[calls[c].address].allocated
        /\ ~fixed_ips[calls[c].address].leased

---------------------------------------------------------------------------
(* allocate_for_instance followed by deallocate_for_instance               *)
(* (manager.py:373-407) on networks nobody holds anything on: the second   *)
(* call is issued when the first has ended.                                *)

InitRoundTrip ==
    Init

NextRoundTrip ==
    \/ \E i \in Instances : AllocateForInstance(1, ApiHost, i, ApiHost)
    \/ \E c \in DOMAIN calls : AllocateMacAddress(c)
    \/ \E c \in DOMAIN calls : MacRollback(c)
    \/ \E c \in DOMAIN calls : FanOut(c)
    \/ \E c \in DOMAIN calls, nid \in DOMAIN networks : AllocateClaim(c, nid)
    \/ \E c \in DOMAIN calls, nid \in DOMAIN networks : AllocateLookup(c, nid)
    \/ \E c \in DOMAIN calls, nid \in DOMAIN networks : AllocateUpdate(c, nid)
    \/ \E c \in DOMAIN calls : ReturnFromAllocate(c)
    \/ /\ calls[1].pc = "done"
       /\ DeallocateForInstance(2, ApiHost, calls[1].instance_id)
    \/ \E c \in DOMAIN calls : ReadFixedIps(c)
    \/ \E c \in DOMAIN calls : DeallocateFixedIp(c)
    \/ \E c \in DOMAIN calls : DeallocateDisassociate(c)
    \/ \E c \in DOMAIN calls : DeleteVifs(c)

SpecRoundTrip == InitRoundTrip /\ [][NextRoundTrip]_vars

\* allocate_for_instance has returned for an instance and the
\* deallocate_for_instance issued after it for the same instance has ended.
RoundTripDone ==
    /\ calls[1].op = "allocate_for_instance"
    /\ calls[1].pc = "done"
    /\ calls[1].raised = ""
    /\ calls[2].op = "deallocate_for_instance"
    /\ calls[2].pc = "done"
    /\ calls[2].instance_id = calls[1].instance_id

\* The fixed IP rows before the two calls
FixedIpsBefore == DeployedDb(policy, NumNetworks).fixed_ips

\* The given columns of every fixed IP row are what they were before the
\* two calls.
Restored(cols) ==
    /\ DOMAIN fixed_ips = DOMAIN FixedIpsBefore
    /\ \A a \in DOMAIN fixed_ips : \A col \in cols :
            fixed_ips[a][col] = FixedIpsBefore[a][col]

\* The networks allocate_for_instance joined the instance to
JoinedNetworks ==
    {GetNetworksForInstance(policy, networks)[k] :
        k \in DOMAIN GetNetworksForInstance(policy, networks)}

\* The rows of network nid that instance i is still bound to
StillBound(i, nid) ==
    {a \in DOMAIN fixed_ips : /\ fixed_ips[a].network_id = nid
                              /\ fixed_ips[a].instance_id = i}

\* C14 as stated: after allocate_for_instance and then
\* deallocate_for_instance for an instance that held nothing, the fixed IP
\* rows (instance_id, virtual_interface_id, allocated, leased, reserved) and
\* the VIF rows are what they were before, under every policy.
C14_RoundTripRestores ==
    RoundTripDone =>
        /\ Restored({"instance_id", "virtual_interface_id", "allocated",
                     "leased", "reserved"})
        /\ vifs = {}

\* C14 amended: after the two calls the VIF rows and the columns
\* virtual_interface_id, allocated, leased and reserved of every fixed IP
\* row are what they were before; instance_id is restored under Flat,
\* while under FlatDHCP and VLAN one row of each joined network stays bound
\* to the instance and no other row has an instance.
C14_RoundTripRestoresButInstance ==
    RoundTripDone =>
        /\ Restored({"virtual_interface_id", "allocated", "leased", "reserved"})
        /\ vifs = {}
        /\ IF policy = "Flat"
           THEN Restored({"instance_id"})
           ELSE /\ \A a \in DOMAIN fixed_ips :
                    fixed_ips[a].instance_id \in {None, calls[1].instance_id}
                /\ \A nid \in DOMAIN networks :
                    Cardinality(StillBound(calls[1].instance_id, nid))
                        = IF nid \in JoinedNetworks THEN 1 ELSE 0

\* C14 witness: under a DHCP policy the two calls have ended and an
\* address is deallocated but still bound to the instance.
C14_StillBoundAfterRoundTrip ==
    /\ RoundTripDone
    /\ policy # "Flat"
    /\ \E a \in DOMAIN fixed_ips :
        /\ fixed_ips[a].instance_id = calls[1].instance_id
        /\ ~fixed_ips[a].allocated
        /\ fixed_ips[a].virtual_interface_id = None

\* Under Flat the two calls have ended and every row is as it was.
C14_FlatRoundTripDone ==
    /\ RoundTripDone
    /\ policy = "Flat"
    /\ Restored({"instance_id", "virtual_interface_id", "allocated",
                 "leased", "reserved"})
    /\ \E a \in DOMAIN fixed_ips : fixed_ips[a].updated_at # None

---------------------------------------------------------------------------
(* The fan-out of RPCAllocateFixedIP._allocate_fixed_ips                   *)
(* (manager.py:126-149) and what allocate_for_instance returns after it.   *)

\* allocate_for_instance of call c has returned its network-info.
Returned(c) ==
    /\ calls[c].op = "allocate_for_instance"
    /\ calls[c].pc = "done"
    /\ calls[c].raised = ""

\* The allocate_fixed_ip that call c ran or dispatched for network nid
\* ended with an exception.
SubFailed(c, nid) ==
    /\ nid \in DOMAIN calls[c].sub
    /\ calls[c].sub[nid].pc = "done"
    /\ calls[c].sub[nid].raised # ""

\* green_pool.waitall() lets the call go on only when every
\* allocate_fixed_ip it ran or dispatched has ended, one for each network
\* of the instance.
ReturnsAfterAll(c) ==
    (calls[c].pc = "waitall" /\ calls'[c].pc # "waitall") =>
        /\ \A nid \in DOMAIN calls[c].sub : calls[c].sub[nid].pc = "done"
        /\ calls[c].op = "allocate_for_instance"
            => DOMAIN calls[c].sub = JoinedNetworks

\* C15 as stated: under the policies with the RPC fan-out, the
\* network-info allocate_for_instance returns has a fixed IP for every
\* network the instance joined.
C15_ReturnedInfoHasEveryFixedIp ==
    \A c \in DOMAIN calls :
        (HasRpcMixin(policy) /\ Returned(c)) =>
            \A nid \in JoinedNetworks :
                \E e \in calls[c].ret : e.network_id = nid /\ e.ips # {}

\* The barrier alone: allocate_for_instance returns only after every
\* allocate_fixed_ip it ran or dispatched has ended.
C15_BarrierBeforeReturn ==
    [][\A c \in DOMAIN calls : ReturnsAfterAll(c)]_vars

\* allocate_for_instance has returned although the allocation it
\* dispatched to another host found the pool of its network empty.
C15_ReturnedWithoutRemoteAddress ==
    \E c \in DOMAIN calls, nid \in DOMAIN networks :
        /\ Returned(c)
        /\ SubFailed(c, nid)
        /\ calls[c].sub[nid].remote
        /\ calls[c].sub[nid].raised = "NoMoreAddresses"
        /\ \E e \in calls[c].ret : e.network_id = nid /\ e.ips = {}

\* The allocate_fixed_ip that call c ran or dispatched for network nid
\* returned, and its address is still allocated to the instance.
SubHolds(c, nid) ==
    /\ nid \in DOMAIN calls[c].sub
    /\ calls[c].sub[nid].pc = "done"
    /\ calls[c].sub[nid].raised = ""
    /\ fixed_ips[calls[c].sub[nid].address].allocated
    /\ fixed_ips[calls[c].sub[nid].address].instance_id = calls[c].instance_id

\* Some allocation of call c that was dispatched to another host failed
\* while another allocation of the call succeeded.
PartialFailure(c) ==
    /\ calls[c].op = "allocate_for_instance"
    /\ calls[c].pc = "done"
    /\ \E nid \in DOMAIN calls[c].sub : SubFailed(c, nid) /\ calls[c].sub[nid].remote
    /\ \E nid \in DOMAIN calls[c].sub : SubHolds(c, nid)

\* C16 as stated: when an allocation dispatched by allocate_for_instance
\* fails while another succeeds, the call does not return normally: its
\* caller receives a failure.
C16_PartialFailureRaises ==
    \A c \in DOMAIN calls : PartialFailure(c) => calls[c].raised # ""

\* The part of C16 about rollback: once an allocate_fixed_ip of the call
\* has ended, the call itself writes no fixed IP row any more on that
\* network, whatever happens to the other allocations.
C16_NoRollback ==
    [][\A c \in DOMAIN calls, nid \in DOMAIN networks :
            (/\ calls[c].op = "allocate_for_instance"
             /\ nid \in DOMAIN calls[c].sub
             /\ calls[c].sub[nid].pc = "done"
             /\ calls'[c] # calls[c]
             /\ \A d \in DOMAIN calls : d # c => calls'[d] = calls[d])
            => \A a \in DOMAIN fixed_ips :
                    fixed_ips[a].network_id = nid => fixed_ips'[a] = fixed_ips[a]]_vars

---------------------------------------------------------------------------
(* create_networks (manager.py:564-627, 861-876): the arguments it         *)
(* refuses.                                                                *)

\* create_networks is called in this step.
CreateIssued == create'.issued = create.issued + 1

\* The call ended at once with ValueError and wrote no row.
RefusedAtOnce ==
    /\ create'.pc = "done"
    /\ create'.raised = "ValueError"
    /\ networks' = networks
    /\ fixed_ips' = fixed_ips

\* C17: VlanManager.create_networks fails with ValueError whenever
\* num_networks + vlan_start > 4094 or the parent range holds fewer than
\* num_networks * network_size addresses, before any Network or FixedIP row
\* is created; other arguments, a sum of exactly 4094 among them, pass the
\* two checks and reach the loop of NetworkManager.create_networks.
C17_VlanArgsRefused ==
    [][(CreateIssued /\ policy = "VLAN") =>
            LET a == create'.args
            IN  IF \/ a.num_networks + a.vlan_start > 4094
                   \/ NetLen(a.cidr) < a.num_networks * a.network_size
                THEN RefusedAtOnce
                ELSE create'.pc = "loop" /\ create'.raised = ""]_vars

\* C17 witness: VlanManager.create_networks with a sum of 4095 and a
\* parent range that is large enough has failed, and the Store is empty.
C17_Sum4095Refused ==
    /\ policy = "VLAN"
    /\ create.pc = "done"
    /\ create.raised = "ValueError"
    /\ create.args.num_networks + create.args.vlan_start = 4095
    /\ NetLen(create.args.cidr) >= create.args.num_networks * create.args.network_size
    /\ networks = <<>>
    /\ fixed_ips = <<>>

\* VlanManager.create_networks with a sum of exactly 4094 has ended
\* normally and its network is in the Store.
C17_Sum4094Accepted ==
    /\ policy = "VLAN"
    /\ create.pc = "done"
    /\ create.raised = ""
    /\ create.args.num_networks + create.args.vlan_start = 4094
    /\ \E id \in DOMAIN networks : networks[id].vlan = 4093

\* The loop of create_networks is at a subnet in this state, and the
\* subnet can be computed (no IndexError).
AtSubnet ==
    /\ create.pc = "loop"
    /\ create.index < create.args.num_networks
    /\ ~SubnetIndexError(policy, create.args, create.index)

\* A network with the cidr of the subnet the loop is at is in the Store.
CidrExists ==
    \E id \in DOMAIN networks :
        networks[id].cidr = SubnetCidr(create.args, create.index)

\* The rows of the fixed IP table that belong to network id
RowsOf(fips, id) == {a \in DOMAIN fips : fips[a].network_id = id}

\* C18: at a subnet whose cidr a network of the Store already has,
\* create_networks ends with the conflict error (ValueError) and creates
\* neither a Network row nor any FixedIP row; at a subnet whose cidr is new
\* it records the network and its FixedIP rows.
C18_ConflictRefused ==
    [][(AtSubnet /\ create' # create) =>
            IF CidrExists
            THEN RefusedAtOnce
            ELSE /\ create'.raised = ""
                 /\ DOMAIN networks' = DOMAIN networks \cup {Cardinality(DOMAIN networks) + 1}
                 /\ RowsOf(fixed_ips', Cardinality(DOMAIN networks) + 1) # {}
                 /\ \A a \in DOMAIN fixed_ips : fixed_ips'[a] = fixed_ips[a]]_vars

\* C18 witness: create_networks has ended with the conflict error at a
\* subnet whose cidr a network of the Store has, and every FixedIP row
\* belongs to a network that was recorded.
C18_ConflictReached ==
    /\ create.pc = "done"
    /\ create.raised = "ValueError"
    /\ ~(policy = "VLAN" /\ VlanArgsError(create.args))
    /\ CidrExists
    /\ \A a \in DOMAIN fixed_ips : fixed_ips[a].network_id \in DOMAIN networks
    /\ \A id \in DOMAIN networks :
            Cardinality(RowsOf(fixed_ips, id)) = NetLen(networks[id].cidr)

---------------------------------------------------------------------------
(* create_networks called once with any network_size, a power of two or    *)
(* not.                                                                    *)

AnyNetworkSizes == 1..Pow2(NetSizeBits + 1)

InitAnySize ==
    /\ policy \in Policies
    /\ FLAGS = DefaultFlags
    /\ networks = EmptyDb.networks
    /\ fixed_ips = EmptyDb.fixed_ips
    /\ vifs = {}
    /\ next_vif_id = 1
    /\ floating_ips = <<>>
    /\ calls = [c \in 1..MaxCalls |-> IdleFrame]
    /\ now = 0
    /\ ticks = IdleTicks
    /\ create \in {[IdleCreate EXCEPT !.args.network_size = s] : s \in AnyNetworkSizes}

\* One call of create_networks on the empty Store
NextAnySize ==
    \/ /\ create.issued = 0
       /\ \E cidr \in FixedRanges(create.args.network_size),
             num_networks \in 1..NumNetworks, vlan_start \in VlanStarts :
               CreateNetworksCall(cidr, num_networks, vlan_start)
    \/ CreateNetworksStep

SpecAnySize == InitAnySize /\ [][NextAnySize]_vars

IsPowerOfTwo(n) == Pow2(Log2Int(n)) = n

\* C19 as stated: create_networks with a network_size that is not a power
\* of two fails without creating any Network or FixedIP row.
C19_NonPowerOfTwoCreatesNothing ==
    ~IsPowerOfTwo(create.args.network_size) =>
        networks = <<>> /\ fixed_ips = <<>>

\* With a network_size that is a power of two every subnet created holds
\* exactly network_size addresses, from the first address of its cidr on.
C19_PowerOfTwoSubnets ==
    IsPowerOfTwo(create.args.network_size) =>
        \A id \in DOMAIN networks :
            RowsOf(fixed_ips, id) =
                {NetFirst(networks[id].cidr) + j :
                    j \in 0..(create.args.network_size - 1)}

\* What the code does with any network_size: every subnet created holds
\* 2^int(log2(network_size)) addresses.
C19_SubnetsAsCoded ==
    \A id \in DOMAIN networks :
        Cardinality(RowsOf(fixed_ips, id)) = Pow2(Log2Int(create.args.network_size))

\* create_networks with a network_size that is not a power of two has
\* ended normally, having created two subnets that are not the slices
\* of network_size addresses of the parent range.
C19_NonPowerOfTwoAccepted ==
    /\ ~IsPowerOfTwo(create.args.network_size)
    /\ create.pc = "done"
    /\ create.raised = ""
    /\ create.args.num_networks = 2
    /\ \E id \in DOMAIN networks :
        /\ networks[id].index = 1
        /\ NetFirst(networks[id].cidr)
              # NetFirst(create.args.cidr) + create.args.network_size

---------------------------------------------------------------------------
(* The floating IP calls of the API (manager.py:245-276) on a deployment   *)
(* where an instance holds a fixed IP on every network.                    *)

\* The Store after allocate_for_instance gave instance_id the address
\* held[nid] on every network nid.
HeldDb(pol, instance_id, held) ==
    LET db == DeployedDb(pol, NumNetworks)
        taken == {held[nid] : nid \in DOMAIN held}
    IN  [networks |-> PickedUp(db.networks),
         vifs |-> {[id |-> nid, address |-> nid, instance_id |-> instance_id,
                    network_id |-> nid] : nid \in DOMAIN held},
         fixed_ips |-> [a \in DOMAIN db.fixed_ips |->
                IF a \in taken
                THEN [db.fixed_ips[a] EXCEPT
                        !.instance_id = instance_id, !.allocated = TRUE,
                        !.virtual_interface_id = db.fixed_ips[a].network_id,
                        !.updated_at = 0]
                ELSE db.fixed_ips[a]]]

\* disassociate_floating_ip(floating_address): db.floating_ip_disassociate,
\* then the Driver calls.
DisassociateFloatingIp(x) ==
    /\ floating_ips' = FloatingIpDisassociate(floating_ips, x)
    /\ UNCHANGED <<policy, FLAGS, networks, fixed_ips, vifs, next_vif_id,
                   calls, now, ticks, create>>

\* deallocate_floating_ip(floating_address): db.floating_ip_deallocate.
\* The method tests nothing.
DeallocateFloatingIp(x) ==
    /\ floating_ips' = FloatingIpDeallocate(floating_ips, x)
    /\ UNCHANGED <<policy, FLAGS, networks, fixed_ips, vifs, next_vif_id,
                   calls, now, ticks, create>>

InitAssociate ==
    /\ policy \in {pol \in Policies : HasFloatingMixin(pol)}
    /\ FLAGS = [DefaultFlags EXCEPT !.fake_network = TRUE]
    /\ LET db == DeployedDb(policy, NumNetworks)
       IN  \E held \in [DOMAIN db.networks -> DOMAIN db.fixed_ips] :
            /\ \A nid \in DOMAIN held : held[nid] \in PoolOf(db.fixed_ips, nid)
            /\ networks = HeldDb(policy, FirstInstance, held).networks
            /\ fixed_ips = HeldDb(policy, FirstInstance, held).fixed_ips
            /\ vifs = HeldDb(policy, FirstInstance, held).vifs
    /\ next_vif_id = NumNetworks + 1
    /\ floating_ips = FloatingPool
    /\ calls = [c \in 1..MaxCalls |-> IdleFrame]
    /\ now = 0
    /\ ticks = IdleTicks
    /\ create = IdleCreate

NextAssociate ==
    \/ \E i \in Instances : AllocateFloatingIp(ProjectOf(i))
    \/ \E x \in DOMAIN floating_ips, a \in DOMAIN fixed_ips :
            /\ OfProject(x) /\ OfInstance(a)
            /\ AssociateFloatingIp(x, a)
    \/ \E x \in DOMAIN floating_ips :
            /\ OfProject(x)
            /\ DisassociateFloatingIp(x)
    \/ \E x \in DOMAIN floating_ips :
            /\ OfProject(x)
            /\ DeallocateFloatingIp(x)

SpecAssociate == InitAssociate /\ [][NextAssociate]_vars

\* C20 as stated: the fixed IP a floating IP is linked to changes to
\* another fixed IP only through a disassociate_floating_ip in between:
\* no step takes a linked floating IP to another fixed IP, since
\* associate_floating_ip on a linked floating IP fails and leaves the link.
C20_LinkChangesOnlyViaDisassociate ==
    [][\A x \in DOMAIN floating_ips :
            floating_ips[x].fixed_ip # None
                => floating_ips'[x].fixed_ip \in {floating_ips[x].fixed_ip, None}]_vars

\* C21 as stated: in no reachable state is a floating IP both in the free
\* pool (project_id null) and linked to a fixed IP, since
\* deallocate_floating_ip returns to the pool only a floating IP that has
\* no association.
C21_NoFreeLinkedFloatingIp ==
    \A x \in DOMAIN floating_ips :
        floating_ips[x].project_id = None => floating_ips[x].fixed_ip = None

---------------------------------------------------------------------------
(* allocate_floating_ip (manager.py:245-257): quota, then the pool.        *)

\* The projects the API calls allocate_floating_ip for
Projects == {ProjectOf(i) : i \in Instances}

\* A floating IP leaves the free pool in this step.
Popped(x) ==
    floating_ips[x].project_id = None /\ floating_ips'[x].project_id # None

\* The step pops x for a project that was below its quota, writes
\* project_id only, and touches no other row.
PopsOneWithinQuota(x) ==
    /\ floating_ips'[x].project_id \in Projects
    /\ AllowedFloatingIps(floating_ips, floating_ips'[x].project_id) >= 1
    /\ floating_ips'[x] = [floating_ips[x] EXCEPT
                                !.project_id = floating_ips'[x].project_id]
    /\ \A y \in DOMAIN floating_ips : y # x => floating_ips'[y] = floating_ips[y]

\* C22 as stated: allocate_floating_ip(project) fails with quota-exceeded
\* when the allowed quota is below 1 and otherwise pops a free floating
\* IP: in every reachable state the call either raises the quota error or
\* returns an address.
C22_QuotaErrorOrPop ==
    \A project_id \in Projects :
        AllocateFloatingRaised(floating_ips, project_id) =
            IF AllowedFloatingIps(floating_ips, project_id) < 1
            THEN "QuotaError" ELSE ""

\* C22 amended: the quota is tested first and a call over quota fails with
\* the quota error; a call within quota fails with the pool-exhausted error
\* when no floating IP is free; a failing call writes nothing; any other
\* call pops exactly one free floating IP and sets its project_id, nothing
\* else.
C22_QuotaThenPoolThenPop ==
    /\ [](\A project_id \in Projects :
            AllocateFloatingRaised(floating_ips, project_id) =
                IF AllowedFloatingIps(floating_ips, project_id) < 1
                THEN "QuotaError"
                ELSE IF \A x \in DOMAIN floating_ips :
                            floating_ips[x].project_id # None
                     THEN "NoMoreAddresses" ELSE "")
    /\ [][\A x \in DOMAIN floating_ips : Popped(x) => PopsOneWithinQuota(x)]_vars

\* C22 witness: a project is below its quota and holds a floating IP that
\* allocate_floating_ip popped for it, and the pool is empty: its next
\* call fails with the pool-exhausted error, not the quota error.
C22_WithinQuotaPoolEmpty ==
    \E project_id \in Projects :
        /\ AllowedFloatingIps(floating_ips, project_id) >= 1
        /\ \E x \in DOMAIN floating_ips : floating_ips[x].project_id = project_id
        /\ \A x \in DOMAIN floating_ips : floating_ips[x].project_id # None
        /\ AllocateFloatingRaised(floating_ips, project_id) = "NoMoreAddresses"

---------------------------------------------------------------------------
(* The auto-assign flow of FloatingIP.allocate_for_instance                *)
(* (manager.py:180-213).                                                   *)

\* No allocate_for_instance is in its auto-assign flow and no floating IP
\* has been marked by one.
NoAutoAssign ==
    /\ \A c \in DOMAIN calls :
            calls[c].pc \notin {"auto_allocate", "auto_set", "auto_associate"}
    /\ \A x \in DOMAIN floating_ips : ~floating_ips[x].auto_assigned

\* C23 as stated: unless the option auto_assign_floating_ip is true (it
\* is absent or false), allocate_for_instance allocates, marks and
\* associates no floating IP.
C23_AutoAssignOnlyWhenEnabled ==
    FLAGS.auto_assign_floating_ip # "True" => NoAutoAssign

\* What the code guarantees: the flow does not run when the flag is not
\* defined at all.
C23_NoAutoAssignWhenUndefined ==
    FLAGS.auto_assign_floating_ip = "undefined" => NoAutoAssign

\* The flag is defined and false, and allocate_for_instance has returned
\* having marked a floating IP auto_assigned and linked it to a fixed IP
\* of the instance.
C23_AutoAssignedThoughFalse ==
    /\ FLAGS.auto_assign_floating_ip = "False"
    /\ \E c \in DOMAIN calls, x \in DOMAIN floating_ips :
        /\ Returned(c)
        /\ floating_ips[x].auto_assigned
        /\ floating_ips[x].fixed_ip # None
        /\ fixed_ips[floating_ips[x].fixed_ip].instance_id = calls[c].instance_id

---------------------------------------------------------------------------
(* The floating IPs in FloatingIP.deallocate_for_instance                  *)
(* (manager.py:215-243).                                                   *)

\* The rows other than x of the floating IP table are left alone.
KeepsOtherFloating(x) ==
    \A y \in DOMAIN floating_ips : y # x => floating_ips'[y] = floating_ips[y]

\* The call is issued with every floating IP that is linked to a fixed IP
\* of the instance on its list, each once, with its auto_assigned flag.
ReadsLinkedFloating(c) ==
    (Issued(c, "deallocate_for_instance") /\ HasFloatingMixin(policy)) =>
        LET floats == calls'[c].floats
        IN  /\ {floats[k].address : k \in DOMAIN floats}
                    = LinkedTo(calls'[c].instance_id)
            /\ Len(floats) = Cardinality(LinkedTo(calls'[c].instance_id))
            /\ \A k \in DOMAIN floats :
                    floats[k].auto_assigned
                        = floating_ips[floats[k].address].auto_assigned
            /\ floating_ips' = floating_ips

\* The floating IP the loop is at is disassociated and keeps its project;
\* the release follows exactly when it was read auto_assigned, otherwise
\* the loop moves on to the next one or, after the last, to the fixed IPs.
DisassociatesEach(c) ==
    DeallocateStep(c, "floating") =>
        LET f == calls[c]
            x == f.floats[f.n].address
        IN  /\ floating_ips'[x] = [floating_ips[x] EXCEPT !.fixed_ip = None]
            /\ KeepsOtherFloating(x)
            /\ IF f.floats[f.n].auto_assigned
               THEN calls'[c].pc = "floating_release" /\ calls'[c].n = f.n
               ELSE IF f.n < Len(f.floats)
                    THEN calls'[c].pc = "floating" /\ calls'[c].n = f.n + 1
                    ELSE calls'[c].pc \in {"dealloc", "read_fixed_ips"}

\* The auto-assigned floating IP the loop is at goes back to the pool.
ReleasesAutoAssigned(c) ==
    DeallocateStep(c, "floating_release") =>
        LET f == calls[c]
            x == f.floats[f.n].address
        IN  /\ f.floats[f.n].auto_assigned
            /\ floating_ips'[x].project_id = None
            /\ floating_ips'[x].fixed_ip = floating_ips[x].fixed_ip
            /\ KeepsOtherFloating(x)
            /\ IF f.n < Len(f.floats)
               THEN calls'[c].pc = "floating" /\ calls'[c].n = f.n + 1
               ELSE calls'[c].pc \in {"dealloc", "read_fixed_ips"}

\* C24: under FlatDHCP and VLAN deallocate_for_instance goes through every
\* floating IP linked to a fixed IP of the instance before it touches the
\* fixed IPs: each is disassociated; one with auto_assigned=true is then
\* released to the pool, one with auto_assigned=false keeps its project.
C24_FloatingIpsDisassociatedAndReleased ==
    [][\A c \in DOMAIN calls :
            /\ ReadsLinkedFloating(c)
            /\ DisassociatesEach(c)
            /\ ReleasesAutoAssigned(c)]_vars

\* C24 witness: deallocate_for_instance found two floating IPs linked to
\* the instance's fixed IP; the first, not auto-assigned, is disassociated
\* and still belongs to its project, the second, auto-assigned, is
\* disassociated and about to be released.
C24_OneKeptOneToRelease ==
    \E c \in DOMAIN calls :
        /\ calls[c].op = "deallocate_for_instance"
        /\ calls[c].pc = "floating_release"
        /\ Len(calls[c].floats) = 2
        /\ calls[c].n = 2
        /\ ~calls[c].floats[1].auto_assigned
        /\ floating_ips[calls[c].floats[1].address].fixed_ip = None
        /\ floating_ips[calls[c].floats[1].address].project_id # None
        /\ floating_ips[calls[c].floats[2].address].fixed_ip = None

---------------------------------------------------------------------------
(* What allocate_fixed_ip returns (manager.py:500-515, 763-769, 818-836).  *)

\* The allocate_fixed_ip of call c for network nid has returned.
SubReturned(c, nid) ==
    /\ nid \in DOMAIN calls[c].sub
    /\ calls[c].sub[nid].pc = "done"
    /\ calls[c].sub[nid].raised = ""

\* C25 as stated: under every policy the value allocate_fixed_ip returns
\* is the address of the row it bound to the instance.
C25_ReturnsAllocatedAddress ==
    \A c \in DOMAIN calls, nid \in DOMAIN networks :
        SubReturned(c, nid) =>
            /\ calls[c].sub[nid].address # None
            /\ calls[c].sub[nid].ret = calls[c].sub[nid].address

\* What the code does: NetworkManager.allocate_fixed_ip, which FlatManager
\* uses, returns the address; the overrides of FlatDHCPManager and
\* VlanManager return nothing.
C25_ReturnsAddressUnderFlatOnly ==
    \A c \in DOMAIN calls, nid \in DOMAIN networks :
        SubReturned(c, nid) =>
            calls[c].sub[nid].ret =
                IF policy = "Flat" THEN calls[c].sub[nid].address ELSE None

---------------------------------------------------------------------------
(* server_create of the multiple-create extension                          *)
(* (api/openstack/compute/multiple_create.py:19-42).  A call frame holds   *)
(* the two dictionaries the function is given: server_dict, which it reads,*)
(* and create_kwargs, which it writes in place.                            *)

MaxCount == 2

MIN_ATTRIBUTE_NAME == "min_count"
MAX_ATTRIBUTE_NAME == "max_count"
RRID_ATTRIBUTE_NAME == "return_reservation_id"

\* A count of the request body: an integer, or a string ("they may come in
\* as strings").
IntValue(n) == [isstr |-> FALSE, num |-> n, str |-> ""]
StrValue(t) == [isstr |-> TRUE, num |-> 0, str |-> t]

\* The integers whose decimal form int() is asked to read here.
Literals == 0..MaxCount

CountValues ==
    {IntValue(n) : n \in Literals}
        \cup {StrValue(ToString(n)) : n \in Literals}
        \cup {StrValue("abc")}

\* int(v) raises ValueError on a string that is not a decimal literal.
IntRaised(v) ==
    IF v.isstr /\ ~(\E n \in Literals : ToString(n) = v.str)
    THEN "ValueError" ELSE ""

\* int(v): an integer is itself, a string is the number it spells.
int(v) ==
    IF v.isstr THEN CHOOSE n \in Literals : ToString(n) = v.str ELSE v.num

\* dict.get(key, default)
Get(d, key, default) == IF key \in DOMAIN d THEN d[key] ELSE default

ServerDictKeys == {MIN_ATTRIBUTE_NAME, MAX_ATTRIBUTE_NAME, RRID_ATTRIBUTE_NAME}

\* The request bodies: each of the three attributes is optional.
ServerDicts ==
    {[k \in D |-> f[k]] :
        f \in [min_count : CountValues, max_count : CountValues,
               return_reservation_id : BOOLEAN],
        D \in SUBSET ServerDictKeys}

\* The keyword arguments collected before server_create runs.
CreateKwargs == {<<>>, [display_name |-> "vm"]}

\* server_create without the test of line 36.
ServerCreateRaised_NoOrderTest(server_dict) ==
    LET min_in == Get(server_dict, MIN_ATTRIBUTE_NAME, IntValue(1))
    IN  IF IntRaised(min_in) # "" THEN IntRaised(min_in)
        ELSE IntRaised(Get(server_dict, MAX_ATTRIBUTE_NAME, IntValue(int(min_in))))

\* The exception server_create raises on server_dict, "" when it returns
\* (lines 32-38).
ServerCreateRaised(server_dict) ==
    LET min_in == Get(server_dict, MIN_ATTRIBUTE_NAME, IntValue(1))
    IN  IF IntRaised(min_in) # "" THEN IntRaised(min_in)
        ELSE LET min_count == int(min_in)
                 max_in == Get(server_dict, MAX_ATTRIBUTE_NAME, IntValue(min_count))
             IN  IF IntRaised(max_in) # "" THEN IntRaised(max_in)
                 ELSE IF min_count > int(max_in) THEN "HTTPBadRequest"
                 ELSE ""

\* create_kwargs after the three assignments of lines 40-42.
ServerCreateKwargs(server_dict, create_kwargs) ==
    LET min_count == int(Get(server_dict, MIN_ATTRIBUTE_NAME, IntValue(1)))
        max_count == int(Get(server_dict, MAX_ATTRIBUTE_NAME, IntValue(min_count)))
        return_id == Get(server_dict, RRID_ATTRIBUTE_NAME, FALSE)
    IN  [k \in DOMAIN create_kwargs \cup ServerDictKeys |->
            IF k = "min_count" THEN min_count
            ELSE IF k = "max_count" THEN max_count
            ELSE IF k = "return_reservation_id" THEN return_id
            ELSE create_kwargs[k]]

\* The API layer calls server_create(server_dict, create_kwargs, ...).
ServerCreateCall(c, server_dict, create_kwargs) ==
    /\ calls[c] = IdleFrame
    /\ calls' = [calls EXCEPT ![c] = [op |-> "server_create", pc |-> "start",
                                      server_dict |-> server_dict,
                                      create_kwargs |-> create_kwargs,
                                      raised |-> ""]]
    /\ UNCHANGED <<policy, FLAGS, networks, fixed_ips, vifs, next_vif_id,
                   floating_ips, now, ticks, create>>

\* server_create runs from its first line to its return or its raise.
server_create(c) ==
    /\ calls[c].op = "server_create"
    /\ calls[c].pc = "start"
    /\ LET raised == ServerCreateRaised(calls[c].server_dict)
       IN  calls' = [calls EXCEPT ![c] =
                [@ EXCEPT !.pc = "done",
                          !.raised = raised,
                          !.create_kwargs =
                              IF raised = ""
                              THEN ServerCreateKwargs(calls[c].server_dict, @)
                              ELSE @]]
    /\ UNCHANGED <<policy, FLAGS, networks, fixed_ips, vifs, next_vif_id,
                   floating_ips, now, ticks, create>>

InitServerCreate ==
    /\ policy = "Flat"
    /\ FLAGS = DefaultFlags
    /\ networks = EmptyDb.networks
    /\ fixed_ips = EmptyDb.fixed_ips
    /\ vifs = {}
    /\ next_vif_id = 1
    /\ floating_ips = <<>>
    /\ calls = [c \in 1..MaxCalls |-> IdleFrame]
    /\ now = 0
    /\ ticks = IdleTicks
    /\ create = IdleCreate

\* One request is served at a time.
NextServerCreate ==
    \/ \E c \in DOMAIN calls, server_dict \in ServerDicts,
          create_kwargs \in CreateKwargs :
            /\ \A c2 \in DOMAIN calls : calls[c2] = IdleFrame
            /\ ServerCreateCall(c, server_dict, create_kwargs)
    \/ \E c \in DOMAIN calls : server_create(c)

SpecServerCreate == InitServerCreate /\ [][NextServerCreate]_vars

\* The counts of a request are numbers (integers or decimal strings).
NumericCounts(d) ==
    \A k \in DOMAIN d \cap {"min_count", "max_count"} : IntRaised(d[k]) = ""

\* The min_count a request asks for: 1 when absent.
MinAsked(d) == IF "min_count" \in DOMAIN d THEN int(d["min_count"]) ELSE 1

\* The max_count a request asks for: its min_count when absent.
MaxAsked(d) == IF "max_count" \in DOMAIN d THEN int(d["max_count"]) ELSE MinAsked(d)

\* kw is k with the three attributes of d written and the rest kept.
WritesCounts(d, k, kw) ==
    /\ DOMAIN kw = DOMAIN k \cup ServerDictKeys
    /\ kw["min_count"] = MinAsked(d)
    /\ kw["max_count"] = MaxAsked(d)
    /\ kw["return_reservation_id"] =
            (IF "return_reservation_id" \in DOMAIN d
             THEN d["return_reservation_id"] ELSE FALSE)
    /\ \A key \in DOMAIN k \ ServerDictKeys : kw[key] = k[key]

\* server_create runs in this step for frame c.
ServerCreateRuns(c) ==
    /\ calls[c].op = "server_create"
    /\ calls[c].pc = "start"
    /\ calls'[c].pc = "done"

---------------------------------------------------------------------------
(* The host each allocate_fixed_ip of the fan-out is sent to               *)
(* (manager.py:126-149), over networks of either multi_host setting.       *)

\* nets with the multi_host column of each network set as flags gives.
WithMultiHost(nets, flags) ==
    [id \in DOMAIN nets |-> [nets[id] EXCEPT !.multi_host = flags[id]]]

InitFanOut ==
    /\ policy \in {pol \in Policies : HasRpcMixin(pol)}
    /\ FLAGS = [DefaultFlags EXCEPT !.fake_network = TRUE]
    /\ \E flags \in [1..NumNetworks -> BOOLEAN] :
            networks = WithMultiHost(
                            PickedUp(DeployedDb(policy, NumNetworks).networks), flags)
    /\ fixed_ips = DeployedDb(policy, NumNetworks).fixed_ips
    /\ vifs = {}
    /\ next_vif_id = 1
    /\ floating_ips = <<>>
    /\ calls = [c \in 1..MaxCalls |-> IdleFrame]
    /\ now = 0
    /\ ticks = IdleTicks
    /\ create = IdleCreate

\* allocate_for_instance arrives at a network host with that host as the
\* instance's host, as the compute API sends it for multi_host networks.
NextFanOut ==
    \/ \E c \in DOMAIN calls, h \in Hosts, i \in Instances :
            AllocateForInstance(c, h, i, h)
    \/ \E c \in DOMAIN calls : AllocateMacAddress(c)
    \/ \E c \in DOMAIN calls : MacRollback(c)
    \/ \E c \in DOMAIN calls : FanOut(c)
    \/ \E c \in DOMAIN calls, nid \in DOMAIN networks : AllocateClaim(c, nid)
    \/ \E c \in DOMAIN calls, nid \in DOMAIN networks : AllocateLookup(c, nid)
    \/ \E c \in DOMAIN calls, nid \in DOMAIN networks : AllocateUpdate(c, nid)
    \/ \E c \in DOMAIN calls : ReturnFromAllocate(c)

SpecFanOut == InitFanOut /\ [][NextFanOut]_vars

\* The loop of _allocate_fixed_ips handles network nid of call c in this
\* step.
FanOutRuns(c, nid) ==
    /\ calls[c].pc = "fan_out"
    /\ calls[c].nets[calls[c].n] = nid
    /\ nid \notin DOMAIN calls[c].sub
    /\ nid \in DOMAIN calls'[c].sub

\* The host the step sends allocate_fixed_ip of network nid to: this host
\* when it runs the method itself, else the host of the topic it casts to.
TargetOf(c, nid) ==
    IF calls'[c].sub[nid].remote THEN calls'[c].host_arg ELSE calls[c].host

\* C27 as stated: each network's allocate_fixed_ip runs on the calling
\* host when the network is multi_host and on network.host otherwise,
\* whatever the other networks of the list are.
C27_TargetPerNetwork ==
    [][\A c \in DOMAIN calls, nid \in DOMAIN networks :
        FanOutRuns(c, nid) =>
            TargetOf(c, nid) = IF networks[nid].multi_host
                               THEN calls[c].host
                               ELSE networks[nid].host]_vars

\* What the code does: a network that is not multi_host is served by its
\* own host; a multi_host network is served by whatever the loop variable
\* host holds, which is the host of the last network before it that was not
\* multi_host, if there was one.
C27_TargetAsCoded ==
    [][\A c \in DOMAIN calls, nid \in DOMAIN networks :
        FanOutRuns(c, nid) =>
            TargetOf(c, nid) = IF networks[nid].multi_host
                               THEN calls[c].host_arg
                               ELSE networks[nid].host]_vars

---------------------------------------------------------------------------
(* The DHCP refresh at the end of allocate_fixed_ip                        *)
(* (manager.py:302-305, 763-769, 818-836).                                 *)

\* allocate_fixed_ip of call c for network nid writes allocated=true in
\* this step and goes on to its last lines.
ReachesDhcpRefresh(c, nid) ==
    /\ nid \in DOMAIN calls[c].sub
    /\ calls[c].sub[nid].pc = "update"
    /\ calls'[c] # calls[c]

\* How allocate_fixed_ip of call c for network nid ended in this step.
EndedWith(c, nid) ==
    IF nid \in DOMAIN calls'[c].sub
    THEN calls'[c].sub[nid].raised
    ELSE calls'[c].raised

\* C28 as stated: an allocate_fixed_ip that has bound its address goes
\* through the DHCP refresh, where the policy has one, and returns
\* normally.
C28_DhcpRefreshCompletes ==
    [][\A c \in DOMAIN calls, nid \in DOMAIN networks :
        ReachesDhcpRefresh(c, nid) => EndedWith(c, nid) = ""]_vars

\* What the code does: under FlatDHCP and VLAN with fake_network unset the
\* call of self._update_dhcp raises AttributeError, the method being
\* defined as _update_dchp, so the Driver is never reached; with
\* fake_network set, and under Flat, the call returns without a refresh.
C28_RefreshRaisesUnlessSkipped ==
    [][\A c \in DOMAIN calls, nid \in DOMAIN networks :
        ReachesDhcpRefresh(c, nid) =>
            EndedWith(c, nid) =
                IF policy \in {"FlatDHCP", "VLAN"} /\ ~FLAGS.fake_network
                THEN "AttributeError" ELSE ""]_vars

---------------------------------------------------------------------------
(* The periodic tasks over a deployment in which some networks are held,   *)
(* some are not, and an address of each held network has been bound to an  *)
(* instance and not marked allocated (manager.py:327-360, 703).            *)

\* The Store with the networks of held picked up and the address
\* held[nid] of each bound to instance_id at time 0, as
\* fixed_ip_associate_pool leaves it.
BoundDb(pol, instance_id, held) ==
    LET db == DeployedDb(pol, NumNetworks)
        taken == {held[nid] : nid \in DOMAIN held}
    IN  [networks |-> [id \in DOMAIN db.networks |->
                IF id \in DOMAIN held THEN PickedUp(db.networks)[id]
                ELSE db.networks[id]],
         fixed_ips |-> [a \in DOMAIN db.fixed_ips |->
                IF a \in taken
                THEN FixedIpAssociatePool(db.fixed_ips, a, instance_id, 0)[a]
                ELSE db.fixed_ips[a]]]

InitSweep ==
    /\ policy \in Policies
    /\ FLAGS = [DefaultFlags EXCEPT !.fake_network = TRUE]
    /\ LET db == DeployedDb(policy, NumNetworks)
       IN  \E ids \in SUBSET DOMAIN db.networks :
            \E held \in [ids -> DOMAIN db.fixed_ips] :
                /\ \A nid \in ids : held[nid] \in PoolOf(db.fixed_ips, nid)
                /\ networks = BoundDb(policy, FirstInstance, held).networks
                /\ fixed_ips = BoundDb(policy, FirstInstance, held).fixed_ips
    /\ vifs = {}
    /\ next_vif_id = 1
    /\ floating_ips = <<>>
    /\ calls = [c \in 1..MaxCalls |-> IdleFrame]
    /\ now = 0
    /\ ticks = IdleTicks
    /\ create = IdleCreate

NextSweep ==
    \/ \E h \in Hosts : PeriodicTasks(h)
    \/ \E h \in Hosts : SetNetworkHost(h)
    \/ \E h \in Hosts : OnSetNetworkHost(h)
    \/ Tick

SpecSweep == InitSweep /\ [][NextSweep]_vars

\* Host h takes a step of its periodic task from position pc.
TickStep(h, pc) ==
    /\ ticks[h].pc = pc
    /\ <<ticks'[h], networks', fixed_ips'>> # <<ticks[h], networks, fixed_ips>>
    /\ \A g \in Hosts \ {h} : ticks'[g] = ticks[g]

\* The networks whose host column changes in this step
HostChanged == {nid \in DOMAIN networks : networks'[nid].host # networks[nid].host}

\* The rows that lose their instance in this step
Disassociated ==
    {a \in DOMAIN fixed_ips :
        fixed_ips[a].instance_id # None /\ fixed_ips'[a].instance_id = None}

\* C29: a tick of host h starts from idle, where it runs the sweep only
\* under FlatDHCP and VLAN and then goes for the first network without a
\* host if there is one; it asks network_set_host for that one network,
\* runs _on_set_network_host for it at most once, and is idle again: no
\* tick passes through either position twice.
C29_OnePickupPerTickSweepIfEnabled ==
    [][\A h \in Hosts :
        /\ TickStep(h, "idle") =>
                /\ HostChanged = {}
                /\ Disassociated # {} => policy \in {"FlatDHCP", "VLAN"}
                /\ policy \in {"FlatDHCP", "VLAN"} =>
                        Disassociated = StaleFixedIps(fixed_ips, networks, h,
                                                      SweepCutoff(now))
                /\ ticks'[h].pc =
                        IF \E nid \in DOMAIN networks : networks[nid].host = None
                        THEN "set_network_host" ELSE "idle"
                /\ ticks'[h].hooked = ticks[h].hooked
        /\ TickStep(h, "set_network_host") =>
                /\ HostChanged \subseteq {ticks[h].network_id}
                /\ Disassociated = {}
                /\ ticks'[h].pc \in {"on_set_network_host", "idle"}
                /\ ticks'[h].hooked = ticks[h].hooked
        /\ TickStep(h, "on_set_network_host") =>
                /\ HostChanged = {}
                /\ Disassociated = {}
                /\ ticks'[h].pc = "idle"
                /\ ticks'[h].hooked = ticks[h].hooked \cup {ticks[h].network_id}]_vars

\* C29 witness: a Flat host has run its tick while a fixed IP of a network
\* it holds was stale; the row is still bound, and the host is on its way
\* to claim the one network it picked.
C29_FlatTickKeptStaleAndPicksUp ==
    \E h \in Hosts :
        /\ policy = "Flat"
        /\ ticks[h].last_run = now
        /\ ticks[h].pc = "set_network_host"
        /\ StaleFixedIps(fixed_ips, networks, h, SweepCutoff(now)) # {}

---------------------------------------------------------------------------
(* What a create_networks that fails part-way leaves in the Store          *)
(* (manager.py:572-627).                                                   *)

\* create_networks has raised at a subnet after its first because the
\* subnet's cidr exists.
ConflictAfterFirst ==
    /\ create.pc = "done"
    /\ create.raised = "ValueError"
    /\ create.index > 0

\* Subnet j of the call is in the Store with a row for each of its
\* addresses.
SubnetStored(j) ==
    \E id \in DOMAIN networks :
        /\ networks[id].cidr = SubnetCidr(create.args, j)
        /\ Cardinality(RowsOf(fixed_ips, id)) = NetLen(networks[id].cidr)

\* C30: when create_networks raises on a cidr conflict at subnet index
\* i > 0, the iteration that raises removes nothing, and the Network rows
\* and all FixedIP rows of the subnets 0..i-1 the call created are in the
\* Store after the error.
C30_NoRollbackAfterConflict ==
    /\ [](ConflictAfterFirst =>
            \A j \in 0..(create.index - 1) : SubnetStored(j))
    /\ [][(AtSubnet /\ create.index > 0 /\ create'.raised = "ValueError") =>
            /\ networks' = networks
            /\ fixed_ips' = fixed_ips]_vars

\* C30 witness: a call for two subnets has created its first and failed on
\* its second, whose cidr an earlier call had created; the Store holds one
\* network more than before the call.
C30_FailedAtSecondSubnet ==
    /\ ConflictAfterFirst
    /\ create.index = 1
    /\ create.issued = 2
    /\ Cardinality(DOMAIN networks) = 2
    /\ SubnetStored(0)

---------------------------------------------------------------------------
(* add_fixed_ip_to_instance for an instance that has a VIF on the first    *)
(* network only, while the network hosts run their periodic tasks and time *)
(* passes (manager.py:327-341, 495-515, 703).                              *)

FirstNetwork == CHOOSE nid \in 1..NumNetworks : \A k \in 1..NumNetworks : nid <= k

InitOrphan ==
    /\ policy \in Policies
    /\ FLAGS = [DefaultFlags EXCEPT !.fake_network = TRUE]
    /\ networks = PickedUp(DeployedDb(policy, NumNetworks).networks)
    /\ fixed_ips = DeployedDb(policy, NumNetworks).fixed_ips
    /\ vifs = {[id |-> 1, address |-> 1, instance_id |-> FirstInstance,
                network_id |-> FirstNetwork]}
    /\ next_vif_id = 2
    /\ floating_ips = <<>>
    /\ calls = [c \in 1..MaxCalls |-> IdleFrame]
    /\ now = 0
    /\ ticks = IdleTicks
    /\ create = IdleCreate

NextOrphan ==
    \/ \E c \in DOMAIN calls, h \in Hosts, nid \in DOMAIN networks :
            AddFixedIpToInstance(c, h, FirstInstance, h, nid)
    \/ \E c \in DOMAIN calls : FanOut(c)
    \/ \E c \in DOMAIN calls, nid \in DOMAIN networks : AllocateClaim(c, nid)
    \/ \E c \in DOMAIN calls, nid \in DOMAIN networks : AllocateLookup(c, nid)
    \/ \E c \in DOMAIN calls, nid \in DOMAIN networks : AllocateUpdate(c, nid)
    \/ \E c \in DOMAIN calls : ReturnFromAllocate(c)
    \/ \E h \in Hosts : PeriodicTasks(h)
    \/ Tick

SpecOrphan == InitOrphan /\ [][NextOrphan]_vars

\* allocate_fixed_ip of call c for network nid fails in this step at its
\* VIF lookup, after fixed_ip_associate_pool has bound an address.
LookupFails(c, nid) ==
    /\ nid \in DOMAIN calls[c].sub
    /\ calls[c].sub[nid].pc = "lookup"
    /\ calls'[c] # calls[c]
    /\ VifsOf(vifs, calls[c].instance_id, nid) = {}

\* Row a is bound to instance_id and not allocated.
BoundUnallocated(fips, a, instance_id) ==
    /\ fips[a].instance_id = instance_id
    /\ ~fips[a].allocated

\* A network host runs its periodic_tasks in this step.
SomeTick ==
    /\ calls' = calls
    /\ now' = now
    /\ <<ticks', fixed_ips'>> # <<ticks, fixed_ips>>

\* C31: an allocate_fixed_ip that fails at its VIF lookup returns nothing
\* to the pool: the row fixed_ip_associate_pool gave it is as it was, bound
\* to the instance with allocated=false unless a sweep has freed it in
\* between, which under the Flat policy never happens; and under Flat no
\* periodic tick unbinds a row that is bound and not allocated.
C31_FailedAllocateKeepsAddressBound ==
    [][/\ \A c \in DOMAIN calls, nid \in DOMAIN networks :
            LookupFails(c, nid) =>
                LET a == calls[c].sub[nid].address
                IN  /\ a # None
                    /\ fixed_ips'[a] = fixed_ips[a]
                    /\ ~fixed_ips'[a].allocated
                    /\ fixed_ips'[a].instance_id \in {calls[c].instance_id, None}
                    /\ policy = "Flat" =>
                            BoundUnallocated(fixed_ips', a, calls[c].instance_id)
       /\ (policy = "Flat" /\ SomeTick) =>
            \A a \in DOMAIN fixed_ips :
                (fixed_ips[a].instance_id # None /\ ~fixed_ips[a].allocated)
                    => fixed_ips'[a] = fixed_ips[a]]_vars

\* C31 witness: under Flat a add_fixed_ip_to_instance has ended in the
\* failed lookup, its address has gone stale, the host of the network has
\* run its periodic task since, and the address is still bound.
C31_FlatOrphanSurvivesTick ==
    /\ policy = "Flat"
    /\ \E c \in DOMAIN calls, a \in DOMAIN fixed_ips :
        /\ calls[c].pc = "done"
        /\ calls[c].raised = "TypeError"
        /\ BoundUnallocated(fixed_ips, a, calls[c].instance_id)
        /\ \E h \in Hosts :
            /\ a \in StaleFixedIps(fixed_ips, networks, h, SweepCutoff(now))
            /\ ticks[h].last_run = now

---------------------------------------------------------------------------
(* The pickup of the networks when a network host keeps running its        *)
(* periodic task (manager.py:327-360): the service runs periodic_tasks at  *)
(* every interval, and a task that has started runs to its end.            *)

\* Host h keeps running: its periodic task is started again and again and
\* each of its steps is taken.
KeepsRunning(h) ==
    /\ WF_vars(PeriodicTasks(h))
    /\ WF_vars(SetNetworkHost(h))
    /\ WF_vars(OnSetNetworkHost(h))

\* The hosts start on a deployment no host holds, and at least one of them
\* keeps running; the others may stop at any point.
SpecHostsFair ==
    /\ InitHosts
    /\ [][NextHosts]_vars
    /\ \E h \in Hosts : KeepsRunning(h)

\* C32: every network without a host is in the end held by a host, for
\* good.
C32_EveryNetworkEventuallyClaimed ==
    \A nid \in 1..NumNetworks : <>[](networks[nid].host \in Hosts)

\* C32 witness: a host lost the race for the first network, made no other
\* attempt in that tick, and holds the second network from a later tick.
C32_LoserClaimedNextNetwork ==
    \E h \in Hosts : \E n1, n2 \in DOMAIN networks :
        /\ n1 # n2
        /\ n1 \in ticks[h].lost
        /\ networks[n2].host = h
        /\ \A nid \in DOMAIN networks : networks[nid].host \in Hosts

---------------------------------------------------------------------------
(* The VIF a fixed IP names (manager.py:391-407, 469-485, 500-521).        *)

\* Row a names a VIF row that exists and is of the row's instance and
\* network.
VifExists(a) ==
    \E v \in vifs :
        /\ v.id = fixed_ips[a].virtual_interface_id
        /\ v.instance_id = fixed_ips[a].instance_id
        /\ v.network_id = fixed_ips[a].network_id

\* C33 as stated: in every reachable state every fixed IP whose
\* virtual_interface_id is set names an existing VIF of the same instance
\* and network.
C33_VifOfFixedIpExists ==
    \A a \in DOMAIN fixed_ips :
        fixed_ips[a].virtual_interface_id # None => VifExists(a)

====
